---- MODULE Spec2Model ----
(***************************************************************************)
(* Order / payment reconciliation of the storefront backend                *)
(* (src/server.js).  The relational store is modelled table by table; every *)
(* handler is split at its awaited SQL statements, so that the statements   *)
(* of concurrent requests and of overlapping reconciler cycles interleave   *)
(* exactly where the code lets them.                                        *)
(*                                                                         *)
(* Decimal amounts (USDT, CNY, fees) are carried as integers in millionths *)
(* of a unit, the resolution of a TRC20 transfer value; times are in        *)
(* milliseconds.  The statuses are '待支付' = "pending", '已支付' = "paid",  *)
(* '已取消' = "cancelled", '待审核' = "review".                              *)
(***************************************************************************)
EXTENDS Integers, Sequences, FiniteSets, TLC

\* ------------------------------------------------------------ constants

\* tx.value / 1000000: the TRC20 value of one USDT
Micro == 1000000
\* the match tolerance and the overpayment threshold, 0.000001 USDT
Epsilon == 1
\* 30 * 60 * 1000: the payment window
Window == 1800000
\* Date.now().toString().slice(-6): the digits an order id keeps
IdDigits == 1000000
\* the lowest amount a withdrawal may ask for, 10 USDT
MinWithdraw == 10
\* Date.now().toString().slice(-8): the digits a withdrawal's order id keeps
WithdrawIdDigits == 100000000
\* Date.now().toString().slice(-8): the digits a top-up's order id keeps
RechargeIdDigits == 100000000
\* withdrawAmount * 0.01: the fee of a withdrawal by 微信 or 支付宝, in percent
WithdrawFee == 1

\* --------------------------------------------------------------- bounds

\* transfers the explorer lists
MaxTxs == 1
\* the clock stops here
MaxTime == 1800000
\* rail changes per run
MaxChanges == 1
\* admin logins per run
MaxLogins == 1
\* edits of a balance by the operator per run
MaxEdits == 1
\* withdrawals asked for per run
MaxWithdrawals == 2
\* orders placed per run of the order creation
MaxOrders == 2
\* top-ups asked for per run
MaxRecharges == 1

Users == {1, 2}
\* the catalogue: one product of 10 USDT
ProductIds == {1}
\* product ids that are in no row
UnknownProducts == {0}
Rails == {"USDT", "WX"}
\* (Math.floor(Math.random() * 9000) + 1000) ranges over 1000..9999; these are
\* the draws the model follows (in 1/10000 USDT)
NonceDraws == {1000, 9999}
\* the one draw the order life cycle follows
OneDraw == {1000}
\* the instants the clock is read at: a millisecond after the start, the end
\* of an order's window, a millisecond later
Instants == {1, Window, Window + 1}
\* the reconciler cycles that may overlap: setInterval starts one every 30 s
\* whether or not the one before is over
Cycles == {1, 2}
\* the buyer requests that may be in flight at once
Slots == {1, 2}

VARIABLES
    now,                \* the wall clock, ms
    orders,             \* table orders: a sequence of rows
    orderSerial,        \* the SERIAL behind orders.id
    users,              \* table users: id -> row
    products,           \* table products: id -> row
    settings,           \* table settings: exchange_rate (in tenths), fee_rate (%)
    withdraw_orders,    \* table withdraw_orders: a sequence of rows
    recharge_orders,    \* table recharge_orders: a sequence of rows
    ADMIN_TOKEN_STORE,  \* 0 is null; otherwise the number of the login that set it
    chain,              \* what the explorer lists, most recent first
    cyc,                \* the reconciler cycles in progress
    req,                \* the buyer requests in progress
    resp,               \* the last response sent to a caller
    hist,               \* history: per orders.id, what was done to the row
    budget              \* what the run may still do: orders, rail changes, logins,
                        \* edits of a balance by the operator, withdrawals, top-ups

vars == <<now, orders, orderSerial, users, products, settings, withdraw_orders,
          recharge_orders, ADMIN_TOKEN_STORE, chain, cyc, req, resp, hist, budget>>

\* ------------------------------------------------------------- helpers

Abs(x) == IF x < 0 THEN -x ELSE x

\* Number.prototype.toFixed(4) on an amount: to the nearest 0.0001
ToFixed4(x) == ((x + 50) \div 100) * 100

\* Number.prototype.toFixed(2) on an amount: to the nearest 0.01
ToFixed2(x) == ((x + 5000) \div 10000) * 10000

\* the least element of a non-empty set of integers
Least(S) == CHOOSE i \in S : \A j \in S : i <= j

\* NaN, what parseFloat makes of a malformed amount and what NUMERIC stores
\* for it: a value apart from every amount
NaN == -2000000000

\* a + b, a - b and a * p / 100 of IEEE numbers and of NUMERIC: NaN if either
\* is NaN
Plus(a, b) == IF a = NaN \/ b = NaN THEN NaN ELSE a + b
Minus(a, b) == IF a = NaN \/ b = NaN THEN NaN ELSE a - b
Percent(a, p) == IF a = NaN THEN NaN ELSE (a * p) \div 100

\* a < b in JavaScript: false if either is NaN
Lt(a, b) == a # NaN /\ b # NaN /\ a < b

Idle == [op |-> "idle"]

\* no reconciler cycle in progress; end tells how the last one ended: "none"
\* (none ran, or it found nothing pending), "failed" (the fetch threw),
\* "nomatch" (no row had a match), "done" (the loop ended after a write)
Over(end) == [pc |-> "idle", end |-> end]
\* no response was sent yet
NoResp == [op |-> "none", ok |-> FALSE]

\* responses are not being observed
RespOff == [op |-> "off", ok |-> FALSE]

\* resp after a handler answered: success or not
Respond(op, ok) == IF resp = RespOff THEN resp ELSE [op |-> op, ok |-> ok]

\* history of one row of orders: who wrote status = '已支付' to it ("admin",
\* "buyer", "recon"), who of them found it already '已支付', how often the
\* reconciler credited the buyer for it, and the instant order creation read
\* the clock at for the row's expiry
NoHist == [by |-> {}, again |-> {}, credits |-> 0, placed |-> 0]

\* the rows of orders an UPDATE ... WHERE order_id = oid touches
ByOrderId(oid) == {i \in DOMAIN orders : orders[i].order_id = oid}

\* the rows of orders an UPDATE ... WHERE id = id touches
ByPk(id) == {i \in DOMAIN orders : orders[i].id = id}

\* hist after status = '已支付' was written by who to the rows at positions I
NotePaid(I, who) ==
    [k \in DOMAIN hist |->
        IF \E i \in I : orders[i].id = k
        THEN LET o == orders[CHOOSE i \in I : orders[i].id = k]
             IN [hist[k] EXCEPT !.by = @ \cup {who},
                                !.again = IF o.status = "paid" THEN @ \cup {who} ELSE @]
        ELSE hist[k]]

\* orders after SET status = st on the rows at positions I
SetStatus(I, st) ==
    [i \in DOMAIN orders |-> IF i \in I THEN [orders[i] EXCEPT !.status = st] ELSE orders[i]]

\* ---------------------------------------------------------------- Init

\* a fresh store with two accounts and the catalogue, the operator logged in
\* and the fee rate set to 3 %
Fresh ==
    /\ now = 0
    /\ orders = <<>>
    /\ orderSerial = 0
    /\ users = [u \in Users |-> [balance |-> 0]]
    /\ products = [p \in ProductIds |-> [price |-> 10 * Micro, stock |-> 1,
                                          is_pinned |-> FALSE, type |-> "virtual"]]
    /\ settings = [exchange_rate |-> 70, fee_rate |-> 3]
    /\ withdraw_orders = <<>>
    /\ recharge_orders = <<>>
    /\ ADMIN_TOKEN_STORE = 1
    /\ chain = <<>>
    /\ cyc = [c \in Cycles |-> Over("none")]
    /\ req = [s \in Slots |-> Idle]
    /\ hist = <<>>

\* what a run of the order life cycle may do: place one order and change its
\* rail
LifeCycle == [orders |-> 1, changes |-> MaxChanges, logins |-> 0, edits |-> 0,
              withdrawals |-> 0, recharges |-> 0]

\* what a run of the ledger may do: the operator edits a balance once, the
\* buyers place one order and ask for two withdrawals
Ledger == [orders |-> 1, changes |-> 0, logins |-> 0, edits |-> MaxEdits,
           withdrawals |-> MaxWithdrawals, recharges |-> 0]

\* what a run of the order creation may do: the operator edits a balance
\* once, the buyers place orders
Creation == [orders |-> MaxOrders, changes |-> 0, logins |-> 0, edits |-> MaxEdits,
             withdrawals |-> 0, recharges |-> 0]

\* what a run of the top-ups may do: the buyer places one order and asks for
\* top-ups
TopUps == [orders |-> 1, changes |-> 0, logins |-> 0, edits |-> 0,
           withdrawals |-> 0, recharges |-> MaxRecharges]

Init == Fresh /\ resp = RespOff /\ budget = LifeCycle

\* ------------------------------------------------------ the environment

\* time passes, to the instant t
Tick(t) ==
    /\ now < t /\ t <= MaxTime
    /\ now' = t
    /\ UNCHANGED <<orders, orderSerial, users, products, settings, withdraw_orders,
                   recharge_orders, ADMIN_TOKEN_STORE, chain, cyc, req, resp, hist, budget>>

\* the amounts somebody may send to the receiving address: what an order asks
\* for, and 10.1 USDT whether or not an order asks for it
TransferValues ==
    {orders[i].usdt_amount : i \in DOMAIN orders} \cup {10 * Micro + 1000 * 100}

\* a TRC20 transfer to the receiving address appears in the explorer's list
Transfer(v) ==
    /\ Len(chain) < MaxTxs
    /\ chain' = <<[value |-> v, block_timestamp |-> now]>> \o chain
    /\ UNCHANGED <<now, orders, orderSerial, users, products, settings, withdraw_orders,
                   recharge_orders, ADMIN_TOKEN_STORE, cyc, req, resp, hist, budget>>

\* --------------------------------------------------------- the operator

\* authAdmin that compares loosely: no header equals the null of no login
authAdmin_Loose(token) == token = ADMIN_TOKEN_STORE

\* authAdmin: the request's token (0: none) is the stored one
authAdmin(token) == token # 0 /\ token = ADMIN_TOKEN_STORE

\* POST /api/admin/login
admin_login(good) ==
    /\ budget.logins > 0
    /\ IF good
       THEN /\ ADMIN_TOKEN_STORE' = ADMIN_TOKEN_STORE + 1
            /\ budget' = [budget EXCEPT !.logins = @ - 1]
            /\ resp' = Respond("admin_login", TRUE)
       ELSE /\ resp' = Respond("admin_login", FALSE)
            /\ UNCHANGED <<ADMIN_TOKEN_STORE, budget>>
    /\ UNCHANGED <<now, orders, orderSerial, users, products, settings, withdraw_orders,
                   recharge_orders, chain, cyc, req, hist>>

\* confirm_pay that also credits the buyer with the amount of the order
confirm_pay_credit(token, orderId) ==
    /\ IF authAdmin(token)
       THEN /\ orders' = SetStatus(ByOrderId(orderId), "paid")
            /\ hist' = NotePaid(ByOrderId(orderId), "admin")
            /\ users' = [u \in DOMAIN users |->
                           IF \E i \in ByOrderId(orderId) : orders[i].user_id = u
                           THEN [users[u] EXCEPT !.balance = @ + Micro]
                           ELSE users[u]]
            /\ resp' = Respond("confirm_pay", TRUE)
       ELSE /\ resp' = Respond("confirm_pay", FALSE)
            /\ UNCHANGED <<orders, hist, users>>
    /\ UNCHANGED <<now, orderSerial, products, settings, withdraw_orders,
                   recharge_orders, ADMIN_TOKEN_STORE, chain, cyc, req, budget>>

\* POST /api/admin/confirm_pay: UPDATE orders SET status = '已支付' WHERE order_id = $1
confirm_pay(token, orderId) ==
    /\ IF authAdmin(token)
       THEN /\ orders' = SetStatus(ByOrderId(orderId), "paid")
            /\ hist' = NotePaid(ByOrderId(orderId), "admin")
            /\ resp' = Respond("confirm_pay", TRUE)
       ELSE /\ resp' = Respond("confirm_pay", FALSE)
            /\ UNCHANGED <<orders, hist>>
    /\ UNCHANGED <<now, orderSerial, users, products, settings, withdraw_orders,
                   recharge_orders, ADMIN_TOKEN_STORE, chain, cyc, req, budget>>

\* ------------------------------------------------------- the reconciler

\* the predicate of txs.find without the comparison of the times
Matches_AmountOnly(tx, row) == Abs(tx.value - row.usdt_amount) < Epsilon

\* the predicate of txs.find: the amounts differ by less than 0.000001 and the
\* transfer is not older than the order
Matches(tx, row) ==
    /\ Abs(tx.value - row.usdt_amount) < Epsilon
    /\ tx.block_timestamp >= row.created_at

\* txs.find(...): the position of the first matching transfer, 0 for undefined
FindMatch(txs, row) ==
    IF \E k \in DOMAIN txs : Matches(txs[k], row)
    THEN Least({k \in DOMAIN txs : Matches(txs[k], row)})
    ELSE 0

\* the WHERE clause of the cycle's SELECT
Selectable(o) ==
    o.status = "pending" /\ o.payment_method = "USDT" /\ o.expires_at > now

\* what the cycle reads of a selected row
Snapshot(o) ==
    [id |-> o.id, user_id |-> o.user_id, usdt_amount |-> o.usdt_amount,
     fee_amount |-> o.fee_amount, created_at |-> o.created_at]

\* the for loop from row i on: the cycle stops before the UPDATE of the first
\* row that has a match, or is over
Loop(rows, txs, i) ==
    LET hits == {j \in i..Len(rows) : FindMatch(txs, rows[j]) # 0}
    IN IF hits = {}
       THEN Over(IF i = 1 THEN "nomatch" ELSE "done")
       ELSE [pc |-> "update", rows |-> rows, txs |-> txs, i |-> Least(hits),
             match |-> txs[FindMatch(txs, rows[Least(hits)])]]

\* the overpayment taken for the whole transfer
Overpaid_WholeTransfer(row, match) == match.value

\* parseFloat(match.value) / 1000000 - exactPrice
Overpaid(row, match) == match.value - (row.usdt_amount - row.fee_amount)

\* checkUsdtDeposits, to its SELECT of the pending orders
checkUsdtDeposits_select(c) ==
    /\ cyc[c].pc = "idle"
    /\ LET pending == SelectSeq(orders, Selectable)
       IN cyc' = [cyc EXCEPT ![c] =
                    IF Len(pending) = 0
                    THEN Over("none")
                    ELSE [pc |-> "fetch",
                          rows |-> [k \in DOMAIN pending |-> Snapshot(pending[k])]]]
    /\ UNCHANGED <<now, orders, orderSerial, users, products, settings, withdraw_orders,
                   recharge_orders, ADMIN_TOKEN_STORE, chain, req, resp, hist, budget>>

\* checkUsdtDeposits_fetch that goes on with the list whether or not the
\* request succeeded
checkUsdtDeposits_fetch_on(c, ok) ==
    /\ cyc[c].pc = "fetch"
    /\ cyc' = [cyc EXCEPT ![c] = Loop(cyc[c].rows, chain, 1)]
    /\ UNCHANGED <<now, orders, orderSerial, users, products, settings, withdraw_orders,
                   recharge_orders, ADMIN_TOKEN_STORE, chain, req, resp, hist, budget>>

\* checkUsdtDeposits, axios.get answers: an error ends the cycle in its catch
checkUsdtDeposits_fetch(c, ok) ==
    /\ cyc[c].pc = "fetch"
    /\ cyc' = [cyc EXCEPT ![c] = IF ok THEN Loop(cyc[c].rows, chain, 1) ELSE Over("failed")]
    /\ UNCHANGED <<now, orders, orderSerial, users, products, settings, withdraw_orders,
                   recharge_orders, ADMIN_TOKEN_STORE, chain, req, resp, hist, budget>>

\* checkUsdtDeposits, its next write: UPDATE orders SET status = '已支付' WHERE
\* id = $1, or the UPDATE of users.balance by the overpayment
checkUsdtDeposits_write(c) ==
    /\ cyc[c].pc \in {"update", "credit"}
    /\ LET row == cyc[c].rows[cyc[c].i]
           m == cyc[c].match
           next == Loop(cyc[c].rows, cyc[c].txs, cyc[c].i + 1)
       IN IF cyc[c].pc = "update"
          THEN /\ orders' = SetStatus(ByPk(row.id), "paid")
               /\ hist' = NotePaid(ByPk(row.id), "recon")
               /\ cyc' = [cyc EXCEPT ![c] =
                            IF Overpaid(row, m) > Epsilon
                            THEN [cyc[c] EXCEPT !.pc = "credit"]
                            ELSE next]
               /\ UNCHANGED users
          ELSE /\ users' = [u \in DOMAIN users |->
                              IF u = row.user_id
                              THEN [users[u] EXCEPT !.balance = @ + ToFixed4(Overpaid(row, m))]
                              ELSE users[u]]
               /\ hist' = [hist EXCEPT ![row.id].credits = @ + 1]
               /\ cyc' = [cyc EXCEPT ![c] = next]
               /\ UNCHANGED orders
    /\ UNCHANGED <<now, orderSerial, products, settings, withdraw_orders,
                   recharge_orders, ADMIN_TOKEN_STORE, chain, req, resp, budget>>

\* ------------------------------------------------------------ the buyer

\* basePrice * rate, the rate in tenths
Cny(base, rate) == (base * rate) \div 10

\* the fee taken as cnyAmount * feePercent, the division by 100 forgotten
Fee_Whole(cny, feePercent) == cny * feePercent

\* cnyAmount * (feePercent / 100)
Fee(cny, feePercent) == (cny * feePercent) \div 100

\* the draw taken in 1/1000 USDT
WithNonce_Wide(base, draw) == ToFixed4(base + draw * 1000)

\* basePrice + randomDecimal, .toFixed(4): the draw is in 1/10000 USDT
WithNonce(base, draw) == ToFixed4(base + draw * 100)

\* 'ORD-' + Date.now().toString().slice(-6)
OrderIdOf(t) == <<"ORD", t % IdDigits>>

\* an order id that no row carries
NoOrderId == <<"ORD", -1>>

\* the order ids a caller may name
OrderIds == {orders[i].order_id : i \in DOMAIN orders} \cup {NoOrderId}

\* POST /api/order, to the amounts: the product is read, then the rate and the
\* fee, and the order id and the expiry are taken from the clock; shippingInfo
\* is 0 when the request carries none, and then the notification of a
\* physical product, which reads shippingInfo.name, will throw
order_create(s, userId, productId, paymentMethod, shippingInfo, quantity, useBalance, draw) ==
    /\ req[s].op = "idle"
    /\ budget.orders > 0
    /\ IF productId \notin DOMAIN products
       THEN /\ resp' = Respond("order", FALSE)
            /\ UNCHANGED req
       ELSE LET basePrice == products[productId].price * quantity
                cny == Cny(basePrice, settings.exchange_rate)
                feeAmount == IF paymentMethod # "USDT" THEN Fee(cny, settings.fee_rate) ELSE 0
                usdtAmount == IF paymentMethod = "USDT" THEN WithNonce(basePrice, draw)
                              ELSE basePrice
            IN /\ req' = [req EXCEPT ![s] =
                    [op |-> "order",
                     pc |-> IF paymentMethod = "USDT" /\ useBalance > 0
                            THEN "balance" ELSE "insert",
                     userId |-> userId, paymentMethod |-> paymentMethod,
                     useBalance |-> useBalance, orderId |-> OrderIdOf(now),
                     usdtAmount |-> usdtAmount, cnyAmount |-> cny + feeAmount,
                     feeAmount |-> feeAmount, expiresAt |-> now + Window,
                     quantity |-> quantity, at |-> now,
                     throws |-> products[productId].type = "physical"
                                    /\ shippingInfo = 0]]
               /\ UNCHANGED resp
    /\ budget' = IF productId \in DOMAIN products
                 THEN [budget EXCEPT !.orders = @ - 1] ELSE budget
    /\ UNCHANGED <<now, orders, orderSerial, users, products, settings, withdraw_orders,
                   recharge_orders, ADMIN_TOKEN_STORE, chain, cyc, hist>>

\* POST /api/order of a request that carries its shipping details
order_price(s, userId, productId, paymentMethod, quantity, useBalance, draw) ==
    order_create(s, userId, productId, paymentMethod, 1, quantity, useBalance, draw)

\* POST /api/order, SELECT balance FROM users and the two checks on useBalance
order_balance(s) ==
    /\ req[s].op = "order" /\ req[s].pc = "balance"
    /\ LET r == req[s]
           userBalance == IF r.userId \in DOMAIN users THEN users[r.userId].balance ELSE 0
       IN IF r.useBalance > userBalance \/ r.useBalance >= r.usdtAmount
          THEN /\ resp' = Respond("order", FALSE)
               /\ req' = [req EXCEPT ![s] = Idle]
          ELSE /\ req' = [req EXCEPT ![s].pc = "deduct"]
               /\ UNCHANGED resp
    /\ UNCHANGED <<now, orders, orderSerial, users, products, settings, withdraw_orders,
                   recharge_orders, ADMIN_TOKEN_STORE, chain, cyc, hist, budget>>

\* POST /api/order, UPDATE users SET balance = balance - $1
order_deduct(s) ==
    /\ req[s].op = "order" /\ req[s].pc = "deduct"
    /\ LET r == req[s]
       IN /\ users' = [u \in DOMAIN users |->
                         IF u = r.userId
                         THEN [users[u] EXCEPT !.balance = @ - r.useBalance]
                         ELSE users[u]]
          /\ req' = [req EXCEPT ![s].pc = "insert",
                                ![s].usdtAmount = ToFixed4(r.usdtAmount - r.useBalance)]
    /\ UNCHANGED <<now, orders, orderSerial, products, settings, withdraw_orders,
                   recharge_orders, ADMIN_TOKEN_STORE, chain, cyc, resp, hist, budget>>

\* POST /api/order, INSERT INTO orders: order_id is UNIQUE, created_at is NOW();
\* then the notification is composed and the response sent, 500 if composing
\* it threw
order_insert(s) ==
    /\ req[s].op = "order" /\ req[s].pc = "insert"
    /\ LET r == req[s]
       IN /\ orderSerial' = orderSerial + 1
          /\ hist' = Append(hist, [NoHist EXCEPT !.placed = r.at])
          /\ req' = [req EXCEPT ![s] = Idle]
          /\ IF ByOrderId(r.orderId) # {}
             THEN /\ resp' = Respond("order", FALSE)
                  /\ UNCHANGED orders
             ELSE /\ orders' = Append(orders,
                        [id |-> orderSerial + 1, order_id |-> r.orderId,
                         user_id |-> r.userId, payment_method |-> r.paymentMethod,
                         status |-> "pending", usdt_amount |-> r.usdtAmount,
                         cny_amount |-> ToFixed2(r.cnyAmount),
                         fee_amount |-> ToFixed2(r.feeAmount),
                         expires_at |-> r.expiresAt, created_at |-> now, proof |-> 0,
                         qrcode_url |-> 0, notified_qrcode |-> FALSE,
                         tracking_number |-> 0, quantity |-> r.quantity])
                  /\ resp' = Respond("order", ~r.throws)
    /\ UNCHANGED <<now, users, products, settings, withdraw_orders,
                   recharge_orders, ADMIN_TOKEN_STORE, chain, cyc, budget>>

\* the rows SELECT * FROM orders WHERE order_id = $1 AND user_id = $2 returns
Owned(orderId, userId) ==
    SelectSeq(orders, LAMBDA o : o.order_id = orderId /\ o.user_id = userId)

\* the same with AND status = '待支付'
OwnedPending(orderId, userId) ==
    SelectSeq(orders, LAMBDA o : o.order_id = orderId /\ o.user_id = userId
                                  /\ o.status = "pending")

\* POST /api/order/cancel, its SELECT and the two checks
cancel_check(s, orderId, userId) ==
    /\ req[s].op = "idle"
    /\ LET check == Owned(orderId, userId)
       IN IF Len(check) = 0 \/ check[1].status # "pending"
          THEN /\ resp' = Respond("cancel", FALSE)
               /\ UNCHANGED req
          ELSE /\ req' = [req EXCEPT ![s] = [op |-> "cancel", orderId |-> orderId,
                                               userId |-> userId]]
               /\ UNCHANGED resp
    /\ UNCHANGED <<now, orders, orderSerial, users, products, settings, withdraw_orders,
                   recharge_orders, ADMIN_TOKEN_STORE, chain, cyc, hist, budget>>

\* cancel_update that also returns what the order asks for to its buyer
cancel_update_refund(s) ==
    /\ req[s].op = "cancel"
    /\ orders' = SetStatus(ByOrderId(req[s].orderId), "cancelled")
    /\ users' = [u \in DOMAIN users |->
                   IF \E i \in ByOrderId(req[s].orderId) : orders[i].user_id = u
                   THEN [users[u] EXCEPT !.balance = @ + Micro]
                   ELSE users[u]]
    /\ resp' = Respond("cancel", TRUE)
    /\ req' = [req EXCEPT ![s] = Idle]
    /\ UNCHANGED <<now, orderSerial, products, settings, withdraw_orders,
                   recharge_orders, ADMIN_TOKEN_STORE, chain, cyc, hist, budget>>

\* POST /api/order/cancel, UPDATE orders SET status = '已取消' WHERE order_id = $1
cancel_update(s) ==
    /\ req[s].op = "cancel"
    /\ orders' = SetStatus(ByOrderId(req[s].orderId), "cancelled")
    /\ resp' = Respond("cancel", TRUE)
    /\ req' = [req EXCEPT ![s] = Idle]
    /\ UNCHANGED <<now, orderSerial, users, products, settings, withdraw_orders,
                   recharge_orders, ADMIN_TOKEN_STORE, chain, cyc, hist, budget>>

\* change_payment_price that charges the fee on the USDT rail as well
change_payment_price_fee(s, orderId, userId, newPaymentMethod, draw) ==
    /\ req[s].op = "idle"
    /\ budget.changes > 0
    /\ LET order == OwnedPending(orderId, userId)
       IN IF Len(order) = 0
          THEN /\ resp' = Respond("change_payment", FALSE)
               /\ UNCHANGED <<req, budget>>
          ELSE LET baseUsdt == order[1].usdt_amount - order[1].fee_amount
                   cny == Cny(baseUsdt, settings.exchange_rate)
                   feeAmount == Fee(cny, settings.fee_rate)
                   usdtAmount == IF newPaymentMethod # "USDT" THEN baseUsdt
                                 ELSE WithNonce(baseUsdt, draw)
               IN /\ req' = [req EXCEPT ![s] =
                       [op |-> "change_payment", orderId |-> orderId, userId |-> userId,
                        newPaymentMethod |-> newPaymentMethod,
                        usdtAmount |-> usdtAmount, cnyAmount |-> cny + feeAmount,
                        feeAmount |-> feeAmount]]
                  /\ budget' = [budget EXCEPT !.changes = @ - 1]
                  /\ UNCHANGED resp
    /\ UNCHANGED <<now, orders, orderSerial, users, products, settings, withdraw_orders,
                   recharge_orders, ADMIN_TOKEN_STORE, chain, cyc, hist>>

\* POST /api/order/change_payment, to the new amounts: the pending order is
\* read, then the rate and the fee
change_payment_price(s, orderId, userId, newPaymentMethod, draw) ==
    /\ req[s].op = "idle"
    /\ budget.changes > 0
    /\ LET order == OwnedPending(orderId, userId)
       IN IF Len(order) = 0
          THEN /\ resp' = Respond("change_payment", FALSE)
               /\ UNCHANGED <<req, budget>>
          ELSE LET baseUsdt == order[1].usdt_amount - order[1].fee_amount
                   cny == Cny(baseUsdt, settings.exchange_rate)
                   feeAmount == IF newPaymentMethod # "USDT"
                                THEN Fee(cny, settings.fee_rate) ELSE 0
                   usdtAmount == IF newPaymentMethod # "USDT" THEN baseUsdt
                                 ELSE WithNonce(baseUsdt, draw)
               IN /\ req' = [req EXCEPT ![s] =
                       [op |-> "change_payment", orderId |-> orderId, userId |-> userId,
                        newPaymentMethod |-> newPaymentMethod,
                        usdtAmount |-> usdtAmount, cnyAmount |-> cny + feeAmount,
                        feeAmount |-> feeAmount]]
                  /\ budget' = [budget EXCEPT !.changes = @ - 1]
                  /\ UNCHANGED resp
    /\ UNCHANGED <<now, orders, orderSerial, users, products, settings, withdraw_orders,
                   recharge_orders, ADMIN_TOKEN_STORE, chain, cyc, hist>>

\* the write of a rail change that leaves the expiry as it was
change_payment_update_keep(s) ==
    /\ req[s].op = "change_payment"
    /\ LET r == req[s]
       IN orders' = [i \in DOMAIN orders |->
                       IF i \in ByOrderId(r.orderId)
                       THEN [orders[i] EXCEPT !.payment_method = r.newPaymentMethod,
                                              !.usdt_amount = r.usdtAmount,
                                              !.cny_amount = ToFixed2(r.cnyAmount),
                                              !.fee_amount = r.feeAmount]
                       ELSE orders[i]]
    /\ resp' = Respond("change_payment", TRUE)
    /\ req' = [req EXCEPT ![s] = Idle]
    /\ UNCHANGED <<now, orderSerial, users, products, settings, withdraw_orders,
                   recharge_orders, ADMIN_TOKEN_STORE, chain, cyc, hist, budget>>

\* POST /api/order/change_payment, UPDATE orders SET payment_method, usdt_amount,
\* cny_amount, fee_amount, expires_at WHERE order_id = $6; the new expiry is
\* taken from the clock as the UPDATE is sent
change_payment_update(s) ==
    /\ req[s].op = "change_payment"
    /\ LET r == req[s]
       IN orders' = [i \in DOMAIN orders |->
                       IF i \in ByOrderId(r.orderId)
                       THEN [orders[i] EXCEPT !.payment_method = r.newPaymentMethod,
                                              !.usdt_amount = r.usdtAmount,
                                              !.cny_amount = ToFixed2(r.cnyAmount),
                                              !.fee_amount = r.feeAmount,
                                              !.expires_at = now + Window]
                       ELSE orders[i]]
    /\ resp' = Respond("change_payment", TRUE)
    /\ req' = [req EXCEPT ![s] = Idle]
    /\ UNCHANGED <<now, orderSerial, users, products, settings, withdraw_orders,
                   recharge_orders, ADMIN_TOKEN_STORE, chain, cyc, hist, budget>>

\* POST /api/order/confirm_payment, its SELECT of the caller's pending order
confirm_payment_check(s, orderId, userId) ==
    /\ req[s].op = "idle"
    /\ IF Len(OwnedPending(orderId, userId)) = 0
       THEN /\ resp' = Respond("confirm_payment", FALSE)
            /\ UNCHANGED req
       ELSE /\ req' = [req EXCEPT ![s] = [op |-> "confirm_payment", orderId |-> orderId,
                                               userId |-> userId]]
            /\ UNCHANGED resp
    /\ UNCHANGED <<now, orders, orderSerial, users, products, settings, withdraw_orders,
                   recharge_orders, ADMIN_TOKEN_STORE, chain, cyc, hist, budget>>

\* POST /api/order/confirm_payment, UPDATE orders SET status = '已支付' WHERE order_id = $1
confirm_payment_update(s) ==
    /\ req[s].op = "confirm_payment"
    /\ orders' = SetStatus(ByOrderId(req[s].orderId), "paid")
    /\ hist' = NotePaid(ByOrderId(req[s].orderId), "buyer")
    /\ resp' = Respond("confirm_payment", TRUE)
    /\ req' = [req EXCEPT ![s] = Idle]
    /\ UNCHANGED <<now, orderSerial, users, products, settings, withdraw_orders,
                   recharge_orders, ADMIN_TOKEN_STORE, chain, cyc, budget>>

\* POST /api/order/confirm-payment (the proof upload):
\* UPDATE orders SET proof = $1, status = '待审核' WHERE order_id = $2
upload_proof(orderId, proof) ==
    /\ orders' = [i \in DOMAIN orders |->
                    IF i \in ByOrderId(orderId)
                    THEN [orders[i] EXCEPT !.proof = proof, !.status = "review"]
                    ELSE orders[i]]
    /\ resp' = Respond("upload_proof", TRUE)
    /\ UNCHANGED <<now, orderSerial, users, products, settings, withdraw_orders,
                   recharge_orders, ADMIN_TOKEN_STORE, chain, cyc, req, hist, budget>>

\* ------------------------------------------------- the order life cycle

\* the admin tokens a request may carry: none, or one a login issued
Tokens == 0..MaxLogins

Next ==
    \/ \E t \in Instants : Tick(t)
    \/ \E v \in TransferValues : Transfer(v)
    \/ \E t \in Tokens, oid \in OrderIds : confirm_pay(t, oid)
    \/ \E c \in {1} : checkUsdtDeposits_select(c)
    \/ \E c \in {1}, ok \in BOOLEAN : checkUsdtDeposits_fetch(c, ok)
    \/ \E c \in {1} : checkUsdtDeposits_write(c)
    \/ \E s \in {1}, p \in ProductIds \cup UnknownProducts, pm \in Rails, n \in OneDraw :
          order_price(s, 1, p, pm, 1, 0, n)
    \/ \E s \in {1} : order_insert(s)
    \/ \E s \in {1}, oid \in OrderIds, u \in Users : cancel_check(s, oid, u)
    \/ \E s \in {1} : cancel_update(s)
    \/ \E s \in {1}, oid \in OrderIds, u \in Users, pm \in Rails, n \in OneDraw :
          change_payment_price(s, oid, u, pm, n)
    \/ \E s \in {1} : change_payment_update(s)
    \/ \E s \in {1}, oid \in OrderIds, u \in Users : confirm_payment_check(s, oid, u)
    \/ \E s \in {1} : confirm_payment_update(s)
    \/ \E oid \in OrderIds : upload_proof(oid, 1)

\* the life cycle of one order: the buyer's requests one at a time, the
\* operator, one reconciler cycle at a time
Spec == Init /\ [][Next]_vars

\* ------------------------------------------------- overlapping cycles

NextRecon ==
    \/ \E t \in Instants : Tick(t)
    \/ \E v \in TransferValues : Transfer(v)
    \/ \E t \in Tokens, oid \in OrderIds : confirm_pay(t, oid)
    \/ \E c \in Cycles : checkUsdtDeposits_select(c)
    \/ \E c \in Cycles, ok \in BOOLEAN : checkUsdtDeposits_fetch(c, ok)
    \/ \E c \in Cycles : checkUsdtDeposits_write(c)
    \/ \E s \in {1}, pm \in Rails, n \in OneDraw : order_price(s, 1, 1, pm, 1, 0, n)
    \/ \E s \in {1} : order_insert(s)
    \/ \E s \in {1}, oid \in OrderIds : confirm_payment_check(s, oid, 1)
    \/ \E s \in {1} : confirm_payment_update(s)

\* one order and all that finalizes it: the operator, the buyer's own
\* confirmation, and two reconciler cycles that overlap
SpecRecon == Init /\ [][NextRecon]_vars

NextRail ==
    \/ \E t \in Instants : Tick(t)
    \/ \E v \in TransferValues : Transfer(v)
    \/ \E c \in {1} : checkUsdtDeposits_select(c)
    \/ \E c \in {1}, ok \in BOOLEAN : checkUsdtDeposits_fetch(c, ok)
    \/ \E c \in {1} : checkUsdtDeposits_write(c)
    \/ \E s \in {1}, pm \in Rails, n \in OneDraw : order_price(s, 1, 1, pm, 1, 0, n)
    \/ \E s \in {1} : order_insert(s)
    \/ \E s \in {1}, oid \in OrderIds, pm \in Rails, n \in OneDraw :
          change_payment_price(s, oid, 1, pm, n)
    \/ \E s \in {1} : change_payment_update(s)

\* one order, its rail changes, and the reconciler
SpecRail == Init /\ [][NextRail]_vars

\* ----------------------------------------------------------- the ledger

\* the value of the environment variable ADMIN_TOKEN
ADMIN_TOKEN == "secret"

\* the authorization headers a request may carry
Headers == {"", "secret"}

\* adminAuth: the authorization header is the configured token
adminAuth(authorization) == authorization = ADMIN_TOKEN

\* the amounts the operator enters, and the ways to apply them
EditAmounts == {20 * Micro}
EditTypes == {"add", "subtract", "set"}

\* GREATEST(a, b): NUMERIC orders NaN above every number
Greatest(a, b) == IF a = NaN \/ b = NaN THEN NaN ELSE IF a >= b THEN a ELSE b

\* POST /api/admin/user/balance: UPDATE users SET balance = ... WHERE id = $2
admin_user_balance(authorization, userId, amount, type) ==
    /\ budget.edits > 0
    /\ IF adminAuth(authorization)
       THEN /\ users' = [u \in DOMAIN users |->
                          IF u # userId THEN users[u]
                          ELSE [users[u] EXCEPT !.balance =
                                  CASE type = "add" -> Plus(@, amount)
                                    [] type = "subtract" -> Greatest(0, Minus(@, amount))
                                    [] type = "set" -> amount]]
            /\ budget' = [budget EXCEPT !.edits = @ - 1]
            /\ resp' = Respond("admin_user_balance", TRUE)
       ELSE /\ resp' = Respond("admin_user_balance", FALSE)
            /\ UNCHANGED <<users, budget>>
    /\ UNCHANGED <<now, orders, orderSerial, products, settings, withdraw_orders,
                   recharge_orders, ADMIN_TOKEN_STORE, chain, cyc, req, hist>>

\* 'WITH-' + Date.now().toString().slice(-8)
WithdrawIdOf(t) == <<"WITH", t % WithdrawIdDigits>>

\* the amounts a buyer asks to withdraw, and to pay from the balance
WithdrawAmounts == {5 * Micro, 20 * Micro}
UseBalances == {5 * Micro}

\* POST /api/user/withdraw, its SELECT of the balance and the checks on the
\* amount; the fee and the order id are computed
withdraw_check(s, userId, amount, paymentMethod) ==
    /\ req[s].op = "idle"
    /\ budget.withdrawals > 0
    /\ IF \/ userId \notin DOMAIN users
          \/ Lt(amount, MinWithdraw * Micro)
          \/ Lt(users[userId].balance, amount)
       THEN /\ resp' = Respond("withdraw", FALSE)
            /\ UNCHANGED <<req, budget>>
       ELSE LET fee == IF paymentMethod = "WX" THEN Percent(amount, WithdrawFee) ELSE 0
            IN /\ req' = [req EXCEPT ![s] =
                    [op |-> "withdraw", pc |-> "insert", userId |-> userId,
                     withdrawAmount |-> amount, fee |-> fee,
                     actualAmount |-> Minus(amount, fee), paymentMethod |-> paymentMethod,
                     orderId |-> WithdrawIdOf(now)]]
               /\ budget' = [budget EXCEPT !.withdrawals = @ - 1]
               /\ UNCHANGED resp
    /\ UNCHANGED <<now, orders, orderSerial, users, products, settings, withdraw_orders,
                   recharge_orders, ADMIN_TOKEN_STORE, chain, cyc, hist>>

\* POST /api/user/withdraw, INSERT INTO withdraw_orders: order_id is UNIQUE
withdraw_insert(s) ==
    /\ req[s].op = "withdraw" /\ req[s].pc = "insert"
    /\ LET r == req[s]
       IN IF \E k \in DOMAIN withdraw_orders : withdraw_orders[k].order_id = r.orderId
          THEN /\ resp' = Respond("withdraw", FALSE)
               /\ req' = [req EXCEPT ![s] = Idle]
               /\ UNCHANGED withdraw_orders
          ELSE /\ withdraw_orders' = Append(withdraw_orders,
                     [order_id |-> r.orderId, user_id |-> r.userId,
                      amount |-> r.withdrawAmount, fee |-> r.fee,
                      actual_amount |-> r.actualAmount,
                      payment_method |-> r.paymentMethod, status |-> "waiting"])
               /\ req' = [req EXCEPT ![s].pc = "update"]
               /\ UNCHANGED resp
    /\ UNCHANGED <<now, orders, orderSerial, users, products, settings,
                   recharge_orders, ADMIN_TOKEN_STORE, chain, cyc, hist, budget>>

\* POST /api/user/withdraw, UPDATE users SET balance = balance - $1
withdraw_update(s) ==
    /\ req[s].op = "withdraw" /\ req[s].pc = "update"
    /\ users' = [u \in DOMAIN users |->
                   IF u = req[s].userId
                   THEN [users[u] EXCEPT !.balance = Minus(@, req[s].withdrawAmount)]
                   ELSE users[u]]
    /\ resp' = Respond("withdraw", TRUE)
    /\ req' = [req EXCEPT ![s] = Idle]
    /\ UNCHANGED <<now, orders, orderSerial, products, settings, withdraw_orders,
                   recharge_orders, ADMIN_TOKEN_STORE, chain, cyc, hist, budget>>

\* the entries recorded for the movements of the balances: initDB creates no
\* table for them and no statement of the program appends one, so there is
\* none in any state
ledger_entries == <<>>

InitLedger == Fresh /\ resp = RespOff /\ budget = Ledger

NextLedger ==
    \/ \E t \in Instants : Tick(t)
    \/ \E v \in TransferValues : Transfer(v)
    \/ \E c \in {1} : checkUsdtDeposits_select(c)
    \/ \E c \in {1}, ok \in BOOLEAN : checkUsdtDeposits_fetch(c, ok)
    \/ \E c \in {1} : checkUsdtDeposits_write(c)
    \/ \E h \in Headers, a \in EditAmounts, ty \in EditTypes : admin_user_balance(h, 1, a, ty)
    \/ \E s \in Slots, a \in WithdrawAmounts, pm \in Rails : withdraw_check(s, 1, a, pm)
    \/ \E s \in Slots : withdraw_insert(s)
    \/ \E s \in Slots : withdraw_update(s)
    \/ \E s \in Slots, ub \in UseBalances, n \in OneDraw : order_price(s, 1, 1, "USDT", 1, ub, n)
    \/ \E s \in Slots : order_balance(s)
    \/ \E s \in Slots : order_deduct(s)
    \/ \E s \in Slots : order_insert(s)

\* the balances: the operator's edits, withdrawals and orders paid in part
\* from the balance, two requests at a time, and the reconciler
SpecLedger == InitLedger /\ [][NextLedger]_vars

\* what a request for a withdrawal may carry as its amount: an amount, or
\* something parseFloat makes NaN of
WithdrawInputs == WithdrawAmounts \cup {NaN}

NextWithdraw ==
    \/ \E t \in Instants : Tick(t)
    \/ \E h \in Headers, a \in EditAmounts, ty \in EditTypes : admin_user_balance(h, 1, a, ty)
    \/ \E s \in Slots, u \in Users \cup {0}, a \in WithdrawInputs, pm \in Rails :
          withdraw_check(s, u, a, pm)
    \/ \E s \in Slots : withdraw_insert(s)
    \/ \E s \in Slots : withdraw_update(s)

\* the withdrawals, two requests at a time, of well-formed and of malformed
\* amounts, with the operator's edits of the balance
SpecWithdraw == InitLedger /\ [][NextWithdraw]_vars

\* ------------------------------------------------------- order creation

\* 'ORD-' + Date.now(): the whole clock, not its last six digits
OrderIdFull(t) == <<"ORDms", t>>

\* Math.min(a, b)
Min(a, b) == IF a <= b THEN a ELSE b

\* POST /api/order of the second variant, its SELECT of the user and of the
\* product: an unknown product leaves the amount 0 and the request goes on
order2_read(s, userId, productId, paymentMethod, useBalance) ==
    /\ req[s].op = "idle"
    /\ budget.orders > 0
    /\ LET known == productId \in DOMAIN products
           amount == IF known THEN products[productId].price ELSE 0
           hasUser == userId \in DOMAIN users
           balance == IF hasUser THEN users[userId].balance ELSE 0
           deducts == useBalance /\ hasUser /\ balance > 0
       IN req' = [req EXCEPT ![s] =
                    [op |-> "order2",
                     pc |-> IF known THEN "stock" ELSE IF deducts THEN "deduct" ELSE "insert",
                     userId |-> userId, productId |-> productId,
                     paymentMethod |-> paymentMethod, deducts |-> deducts,
                     deduct |-> IF deducts THEN Min(balance, amount) ELSE 0,
                     finalUSDT |-> amount]]
    /\ budget' = [budget EXCEPT !.orders = @ - 1]
    /\ UNCHANGED <<now, orders, orderSerial, users, products, settings, withdraw_orders,
                   recharge_orders, ADMIN_TOKEN_STORE, chain, cyc, resp, hist>>

\* POST /api/order of the second variant, UPDATE products SET stock = stock - 1
order2_stock(s) ==
    /\ req[s].op = "order2" /\ req[s].pc = "stock"
    /\ products' = [products EXCEPT ![req[s].productId].stock = @ - 1]
    /\ req' = [req EXCEPT ![s].pc = IF req[s].deducts THEN "deduct" ELSE "insert"]
    /\ UNCHANGED <<now, orders, orderSerial, users, settings, withdraw_orders,
                   recharge_orders, ADMIN_TOKEN_STORE, chain, cyc, resp, hist, budget>>

\* POST /api/order of the second variant, UPDATE users SET balance = balance - $1
\* by the lesser of the amount and the balance that was read
order2_deduct(s) ==
    /\ req[s].op = "order2" /\ req[s].pc = "deduct"
    /\ users' = [u \in DOMAIN users |->
                   IF u = req[s].userId
                   THEN [users[u] EXCEPT !.balance = @ - req[s].deduct]
                   ELSE users[u]]
    /\ req' = [req EXCEPT ![s].pc = "insert", ![s].finalUSDT = @ - req[s].deduct]
    /\ UNCHANGED <<now, orders, orderSerial, products, settings, withdraw_orders,
                   recharge_orders, ADMIN_TOKEN_STORE, chain, cyc, resp, hist, budget>>

\* POST /api/order of the second variant, the rate and the fee are read and
\* the order is inserted: order_id is the primary key
order2_insert(s) ==
    /\ req[s].op = "order2" /\ req[s].pc = "insert"
    /\ LET r == req[s]
           cny == Cny(r.finalUSDT, settings.exchange_rate)
           cnyAmount == ToFixed2(cny + Fee(cny, settings.fee_rate))
       IN /\ orderSerial' = orderSerial + 1
          /\ hist' = Append(hist, [NoHist EXCEPT !.placed = now])
          /\ req' = [req EXCEPT ![s] = Idle]
          /\ IF ByOrderId(OrderIdFull(now)) # {}
             THEN /\ resp' = Respond("order", FALSE)
                  /\ UNCHANGED orders
             ELSE /\ orders' = Append(orders,
                        [id |-> orderSerial + 1, order_id |-> OrderIdFull(now),
                         user_id |-> r.userId, payment_method |-> r.paymentMethod,
                         status |-> "pending", usdt_amount |-> ToFixed4(r.finalUSDT),
                         cny_amount |-> cnyAmount, fee_amount |-> 0,
                         expires_at |-> now + Window, created_at |-> now, proof |-> 0])
                  /\ resp' = Respond("order", TRUE)
    /\ UNCHANGED <<now, users, products, settings, withdraw_orders,
                   recharge_orders, ADMIN_TOKEN_STORE, chain, cyc, budget>>

\* the quantities a buyer may ask for
Quantities == {-1, 0, 1}

InitCreate == Fresh /\ resp = RespOff /\ budget = Creation

NextCreate ==
    \/ \E t \in Instants : Tick(t)
    \/ \E h \in Headers, a \in EditAmounts, ty \in EditTypes : admin_user_balance(h, 1, a, ty)
    \/ \E s \in Slots, p \in ProductIds \cup UnknownProducts, q \in Quantities,
          ub \in UseBalances \cup {0}, n \in OneDraw :
          order_price(s, 1, p, "USDT", q, ub, n)
    \/ \E s \in Slots : order_balance(s)
    \/ \E s \in Slots : order_deduct(s)
    \/ \E s \in Slots : order_insert(s)
    \/ \E s \in Slots, p \in ProductIds \cup UnknownProducts, ub \in BOOLEAN :
          order2_read(s, 1, p, "USDT", ub)
    \/ \E s \in Slots : order2_stock(s)
    \/ \E s \in Slots : order2_deduct(s)
    \/ \E s \in Slots : order2_insert(s)

\* the creation of orders, two requests at a time, by both variants of
\* POST /api/order, with the operator's edits of the balance
SpecCreate == InitCreate /\ [][NextCreate]_vars

\* ------------------------------------------------------------- top-ups

\* 'RECH-' + Date.now().toString().slice(-8)
RechargeIdOf(t) == <<"RECH", t % RechargeIdDigits>>

\* the amounts a buyer asks to top up by
RechargeAmounts == {10 * Micro}

\* the ids of the top-ups, which a caller may name
RechargeIds == {recharge_orders[i].order_id : i \in DOMAIN recharge_orders}

\* POST /api/user/recharge, to the amounts: the order id is taken from the
\* clock, the rate and the fee are read, the nonce is drawn
recharge_price(s, userId, amount, paymentMethod, draw) ==
    /\ req[s].op = "idle"
    /\ budget.recharges > 0
    /\ req' = [req EXCEPT ![s] =
                 [op |-> "recharge", orderId |-> RechargeIdOf(now), userId |-> userId,
                  usdtAmount |-> IF paymentMethod # "USDT" THEN amount
                                 ELSE WithNonce(amount, draw),
                  paymentMethod |-> paymentMethod, expiresAt |-> now + Window]]
    /\ budget' = [budget EXCEPT !.recharges = @ - 1]
    /\ UNCHANGED <<now, orders, orderSerial, users, products, settings, withdraw_orders,
                   recharge_orders, ADMIN_TOKEN_STORE, chain, cyc, resp, hist>>

\* POST /api/user/recharge, INSERT INTO recharge_orders: order_id is UNIQUE,
\* status is '待支付' and created_at is NOW() by default
recharge_insert(s) ==
    /\ req[s].op = "recharge"
    /\ LET r == req[s]
       IN IF r.orderId \in RechargeIds
          THEN /\ resp' = Respond("recharge", FALSE)
               /\ UNCHANGED recharge_orders
          ELSE /\ recharge_orders' = Append(recharge_orders,
                     [order_id |-> r.orderId, user_id |-> r.userId,
                      amount |-> r.usdtAmount, payment_method |-> r.paymentMethod,
                      status |-> "pending", qrcode_url |-> 0,
                      notified_qrcode |-> FALSE, created_at |-> now,
                      expires_at |-> r.expiresAt])
               /\ resp' = Respond("recharge", TRUE)
    /\ req' = [req EXCEPT ![s] = Idle]
    /\ UNCHANGED <<now, orders, orderSerial, users, products, settings, withdraw_orders,
                   ADMIN_TOKEN_STORE, chain, cyc, hist, budget>>

\* the amounts somebody may send to the receiving address: what an order or a
\* top-up asks for
TopUpTransferValues ==
    TransferValues \cup {recharge_orders[i].amount : i \in DOMAIN recharge_orders}

\* the answers to the callers are observed
InitTopUp == Fresh /\ resp = NoResp /\ budget = TopUps

NextTopUp ==
    \/ \E t \in Instants : Tick(t)
    \/ \E v \in TopUpTransferValues : Transfer(v)
    \/ \E t \in Tokens, oid \in OrderIds \cup RechargeIds : confirm_pay(t, oid)
    \/ \E c \in {1} : checkUsdtDeposits_select(c)
    \/ \E c \in {1}, ok \in BOOLEAN : checkUsdtDeposits_fetch(c, ok)
    \/ \E c \in {1} : checkUsdtDeposits_write(c)
    \/ \E s \in {1}, pm \in Rails, n \in OneDraw : order_price(s, 1, 1, pm, 1, 0, n)
    \/ \E s \in {1} : order_insert(s)
    \/ \E s \in {1}, a \in RechargeAmounts, pm \in Rails, n \in NonceDraws :
          recharge_price(s, 1, a, pm, n)
    \/ \E s \in {1} : recharge_insert(s)

\* the top-ups: a buyer's order and top-up, the transfers for them, the
\* operator and the reconciler
SpecTopUp == InitTopUp /\ [][NextTopUp]_vars

\* setInterval starts a cycle every 30 s, a cycle runs to its end, and the
\* explorer answers in the end
Running ==
    /\ WF_vars(checkUsdtDeposits_select(1))
    /\ SF_vars(checkUsdtDeposits_fetch(1, TRUE))
    /\ WF_vars(checkUsdtDeposits_write(1))

\* the top-ups with the reconciler kept running
SpecTopUpLive == SpecTopUp /\ Running

\* ------------------------------------------- what leaves an order alone

\* what the operator may send after 设置汇率: a rate (in tenths), 0, no number
RateInputs == {72, 0, NaN}
\* what the operator may send after 设置手续费: a percentage, a negative one
FeeInputs == {5, -1}
\* the files an upload may carry: none (0), one
Files == {0, 1}
\* req.body.orderType
OrderTypes == {"order", "recharge"}

\* bot.on('message') that, with the new rate, prices the pending orders again
bot_message_rate_reprice(rate) ==
    /\ IF rate # NaN /\ rate > 0
       THEN /\ settings' = [settings EXCEPT !.exchange_rate = rate]
            /\ orders' = [i \in DOMAIN orders |->
                  IF orders[i].status = "pending"
                  THEN [orders[i] EXCEPT !.cny_amount =
                          ToFixed2((((orders[i].usdt_amount - orders[i].fee_amount) * rate)
                                       \div 10) + orders[i].fee_amount)]
                  ELSE orders[i]]
       ELSE UNCHANGED <<settings, orders>>
    /\ UNCHANGED <<now, orderSerial, users, products, withdraw_orders, recharge_orders,
                   ADMIN_TOKEN_STORE, chain, cyc, req, resp, hist, budget>>

\* bot.on('message'), 设置汇率 <rate>: settings.exchange_rate is set if the
\* number parses and is positive
bot_message_rate(rate) ==
    /\ IF rate # NaN /\ rate > 0
       THEN settings' = [settings EXCEPT !.exchange_rate = rate]
       ELSE UNCHANGED settings
    /\ UNCHANGED <<now, orders, orderSerial, users, products, withdraw_orders,
                   recharge_orders, ADMIN_TOKEN_STORE, chain, cyc, req, resp, hist, budget>>

\* bot.on('message'), 设置手续费 <fee>: settings.fee_rate is set if the number
\* parses and is not negative
bot_message_fee(fee) ==
    /\ IF fee # NaN /\ fee >= 0
       THEN settings' = [settings EXCEPT !.fee_rate = fee]
       ELSE UNCHANGED settings
    /\ UNCHANGED <<now, orders, orderSerial, users, products, withdraw_orders,
                   recharge_orders, ADMIN_TOKEN_STORE, chain, cyc, req, resp, hist, budget>>

\* POST /api/admin/order/upload_qrcode: UPDATE <table> SET qrcode_url = $1,
\* notified_qrcode = false WHERE order_id = $2
upload_qrcode(token, orderId, orderType, file) ==
    /\ IF ~authAdmin(token) \/ file = 0
       THEN /\ resp' = Respond("upload_qrcode", FALSE)
            /\ UNCHANGED <<orders, recharge_orders>>
       ELSE /\ resp' = Respond("upload_qrcode", TRUE)
            /\ IF orderType = "recharge"
               THEN /\ recharge_orders' = [i \in DOMAIN recharge_orders |->
                          IF recharge_orders[i].order_id = orderId
                          THEN [recharge_orders[i] EXCEPT !.qrcode_url = file,
                                                          !.notified_qrcode = FALSE]
                          ELSE recharge_orders[i]]
                    /\ UNCHANGED orders
               ELSE /\ orders' = [i \in DOMAIN orders |->
                          IF i \in ByOrderId(orderId)
                          THEN [orders[i] EXCEPT !.qrcode_url = file,
                                                 !.notified_qrcode = FALSE]
                          ELSE orders[i]]
                    /\ UNCHANGED recharge_orders
    /\ UNCHANGED <<now, orderSerial, users, products, settings, withdraw_orders,
                   ADMIN_TOKEN_STORE, chain, cyc, req, hist, budget>>

\* POST /api/admin/order/ship: UPDATE orders SET tracking_number = $1 WHERE
\* order_id = $2
order_ship(token, orderId, trackingNumber) ==
    /\ IF authAdmin(token)
       THEN /\ orders' = [i \in DOMAIN orders |->
                  IF i \in ByOrderId(orderId)
                  THEN [orders[i] EXCEPT !.tracking_number = trackingNumber]
                  ELSE orders[i]]
            /\ resp' = Respond("ship", TRUE)
       ELSE /\ resp' = Respond("ship", FALSE)
            /\ UNCHANGED orders
    /\ UNCHANGED <<now, orderSerial, users, products, settings, withdraw_orders,
                   recharge_orders, ADMIN_TOKEN_STORE, chain, cyc, req, hist, budget>>

\* what a run of the frame may do: place one order and change its rail once
Frame == [orders |-> 1, changes |-> 1, logins |-> 0, edits |-> 0,
          withdrawals |-> 0, recharges |-> 0]

InitFrame == Fresh /\ resp = RespOff /\ budget = Frame

NextFrame ==
    \/ \E v \in TransferValues : Transfer(v)
    \/ \E t \in Tokens, oid \in OrderIds : confirm_pay(t, oid)
    \/ \E c \in {1} : checkUsdtDeposits_select(c)
    \/ \E c \in {1}, ok \in BOOLEAN : checkUsdtDeposits_fetch(c, ok)
    \/ \E c \in {1} : checkUsdtDeposits_write(c)
    \/ \E s \in {1}, pm \in Rails, n \in OneDraw : order_price(s, 1, 1, pm, 1, 0, n)
    \/ \E s \in {1} : order_insert(s)
    \/ \E s \in {1}, oid \in OrderIds : cancel_check(s, oid, 1)
    \/ \E s \in {1} : cancel_update(s)
    \/ \E s \in {1}, oid \in OrderIds, pm \in Rails, n \in OneDraw :
          change_payment_price(s, oid, 1, pm, n)
    \/ \E s \in {1} : change_payment_update(s)
    \/ \E s \in {1}, oid \in OrderIds : confirm_payment_check(s, oid, 1)
    \/ \E s \in {1} : confirm_payment_update(s)
    \/ \E r \in RateInputs : bot_message_rate(r)
    \/ \E f \in FeeInputs : bot_message_fee(f)
    \/ \E t \in Tokens, oid \in OrderIds, ty \in OrderTypes, f \in Files :
          upload_qrcode(t, oid, ty, f)
    \/ \E t \in Tokens, oid \in OrderIds : order_ship(t, oid, 1)

\* one order and everything that may be done to it or to the rate and the fee
\* while it lives
SpecFrame == InitFrame /\ [][NextFrame]_vars

\* ------------------------------------------------------------ pricing

\* the prices the catalogue may carry
Prices == {10 * Micro, 10010000}
\* the rates (in tenths) and the fees (in percent) the settings may carry
Rates == {70, 72}
Fees == {0, 3}
\* req.body.items: no item, one item, two items, an item of no product
Carts == {<<>>,
          <<[productId |-> 1, quantity |-> 1]>>,
          <<[productId |-> 1, quantity |-> 1], [productId |-> 1, quantity |-> 1]>>,
          <<[productId |-> 0, quantity |-> 1]>>}

\* totalUsdt: the sum of price * item.quantity over the items
RECURSIVE BatchTotal(_)
BatchTotal(items) ==
    IF items = <<>> THEN 0
    ELSE products[Head(items).productId].price * Head(items).quantity
             + BatchTotal(Tail(items))

\* items.reduce((sum, item) => sum + item.quantity, 0)
RECURSIVE BatchQuantity(_)
BatchQuantity(items) ==
    IF items = <<>> THEN 0 ELSE Head(items).quantity + BatchQuantity(Tail(items))

\* 'BATCH-' + Date.now().toString().slice(-6)
BatchIdOf(t) == <<"BATCH", t % IdDigits>>

\* POST /api/order/batch, to the amounts: the rate and the fee are read, then
\* the product of every item; what follows is what follows in POST /api/order
order_batch_price(s, userId, items, paymentMethod, useBalance, draw) ==
    /\ req[s].op = "idle"
    /\ budget.orders > 0
    /\ IF items = <<>> \/ \E k \in DOMAIN items : items[k].productId \notin DOMAIN products
       THEN /\ resp' = Respond("order", FALSE)
            /\ UNCHANGED <<req, budget>>
       ELSE LET totalUsdt == BatchTotal(items)
                cny == Cny(totalUsdt, settings.exchange_rate)
                feeAmount == IF paymentMethod # "USDT" THEN Fee(cny, settings.fee_rate) ELSE 0
                usdtAmount == IF paymentMethod = "USDT" THEN WithNonce(totalUsdt, draw)
                              ELSE totalUsdt
            IN /\ req' = [req EXCEPT ![s] =
                    [op |-> "order",
                     pc |-> IF paymentMethod = "USDT" /\ useBalance > 0
                            THEN "balance" ELSE "insert",
                     userId |-> userId, paymentMethod |-> paymentMethod,
                     useBalance |-> useBalance, orderId |-> BatchIdOf(now),
                     usdtAmount |-> usdtAmount, cnyAmount |-> cny + feeAmount,
                     feeAmount |-> feeAmount, expiresAt |-> now + Window,
                     quantity |-> BatchQuantity(items), at |-> now,
                     throws |-> FALSE]]
               /\ budget' = [budget EXCEPT !.orders = @ - 1]
               /\ UNCHANGED resp
    /\ UNCHANGED <<now, orders, orderSerial, users, products, settings, withdraw_orders,
                   recharge_orders, ADMIN_TOKEN_STORE, chain, cyc, hist>>

\* what a run of the pricing may do: place one order and ask for one top-up
Pricing == [orders |-> 1, changes |-> 0, logins |-> 0, edits |-> 0,
            withdrawals |-> 0, recharges |-> 1]

\* a store whose catalogue price, rate and fee are any of those above
InitPrice ==
    /\ now = 0
    /\ orders = <<>>
    /\ orderSerial = 0
    /\ users = [u \in Users |-> [balance |-> 0]]
    /\ \E p \in Prices : products = [i \in ProductIds |-> [price |-> p, stock |-> 1,
                                                           is_pinned |-> FALSE, type |-> "virtual"]]
    /\ \E r \in Rates, f \in Fees : settings = [exchange_rate |-> r, fee_rate |-> f]
    /\ withdraw_orders = <<>>
    /\ recharge_orders = <<>>
    /\ ADMIN_TOKEN_STORE = 1
    /\ chain = <<>>
    /\ cyc = [c \in Cycles |-> Over("none")]
    /\ req = [s \in Slots |-> Idle]
    /\ hist = <<>>
    /\ resp = RespOff
    /\ budget = Pricing

NextPrice ==
    \/ \E s \in {1}, pm \in Rails, q \in {1, 2}, n \in NonceDraws :
          order_price(s, 1, 1, pm, q, 0, n)
    \/ \E s \in {1}, items \in Carts, pm \in Rails, n \in NonceDraws :
          order_batch_price(s, 1, items, pm, 0, n)
    \/ \E s \in {1} : order_insert(s)
    \/ \E s \in {1}, a \in RechargeAmounts, pm \in Rails, n \in NonceDraws :
          recharge_price(s, 1, a, pm, n)
    \/ \E s \in {1} : recharge_insert(s)

\* the pricing of one order, single or batched, and of one top-up, over the
\* prices, rates and fees above
SpecPrice == InitPrice /\ [][NextPrice]_vars

\* ------------------------------------------------------------- claims

\* the row of orders with primary key k
RowOf(k) == orders[CHOOSE i \in DOMAIN orders : orders[i].id = k]

\* the keys of the rows of orders
Keys == {orders[i].id : i \in DOMAIN orders}

\* no reconciler cycle is in progress
Quiet == \A c \in Cycles : cyc[c].pc = "idle"

\* this step is the UPDATE of orders of reconciler cycle c
ReconUpdate(c) == cyc[c].pc = "update" /\ checkUsdtDeposits_write(c)

\* the row the next write of reconciler cycle c is about, as the cycle read it
RowAt(c) == cyc[c].rows[cyc[c].i]

\* C1 as stated: once finalizations of one order overlapped (the reconciler
\* wrote '已支付' to a row that was '已支付' already) and are over, the order is
\* paid and the buyer's balance was credited exactly once for it.
C1_ExactlyOneCredit ==
    \A k \in Keys :
        ("recon" \in hist[k].again /\ Quiet)
            => (RowOf(k).status = "paid" /\ hist[k].credits = 1)

\* C1: once finalizations of one order overlapped (the reconciler wrote
\* '已支付' to a row that was '已支付' already), the order is paid, and the
\* buyer's balance was credited at most once for it, never once per attempt;
\* a transfer that matches the amount asked leaves no overpayment, so the
\* balances are what they were.
C1_AtMostOneCredit ==
    \A k \in Keys :
        /\ hist[k].credits <= 1
        /\ "recon" \in hist[k].again
              => (RowOf(k).status = "paid" /\ \A u \in Users : users[u].balance = 0)

\* two reconciler cycles overlapped on one order, both wrote, both are over
C1_TwoCyclesWrote ==
    \E k \in Keys :
        /\ hist[k].by = {"recon"} /\ hist[k].again = {"recon"}
        /\ RowOf(k).status = "paid" /\ Quiet

\* this step writes '已支付' once more to rows that all are '已支付'
RepeatPaid ==
    \/ \E t \in Tokens, oid \in OrderIds :
          /\ authAdmin(t) /\ ByOrderId(oid) # {}
          /\ \A i \in ByOrderId(oid) : orders[i].status = "paid"
          /\ confirm_pay(t, oid)
    \/ \E c \in Cycles :
          /\ ReconUpdate(c)
          /\ \A i \in ByPk(RowAt(c).id) : orders[i].status = "paid"
    \/ \E s \in Slots :
          /\ req[s].op = "confirm_payment"
          /\ \A i \in ByOrderId(req[s].orderId) : orders[i].status = "paid"
          /\ confirm_payment_update(s)

\* C2: writing '已支付' a second time to an order that is paid is a no-op: the
\* rows of orders (status and amounts) and the balances stay what the first
\* write left, no credit follows, and an order is credited at most once.
C2_SecondPaidIsNoOp ==
    [][/\ RepeatPaid => /\ orders' = orders
                        /\ users' = users
                        /\ \A c \in Cycles : cyc'[c].pc # "credit"
       /\ \A k \in DOMAIN hist' : hist'[k].credits <= 1]_vars

\* an order is paid and '已支付' was written to it again, by the operator
C2_PaidTwice ==
    \E k \in Keys : "admin" \in hist[k].again /\ RowOf(k).status = "paid"

\* C3: whenever checkUsdtDeposits writes '已支付' to an order, after whatever
\* creations and rail changes, the transfer it matched is not older than the
\* order: its block_timestamp is at least the row's created_at.
C3_MatchNotOlder ==
    [][\A c \in Cycles :
          ReconUpdate(c) =>
              \A i \in ByPk(RowAt(c).id) :
                  cyc[c].match.block_timestamp >= orders[i].created_at]_vars

\* the reconciler finalized an order whose rail had been changed, while a
\* transfer was listed
C3_PaidAfterChange ==
    \E k \in Keys :
        /\ "recon" \in hist[k].by /\ budget.changes < MaxChanges
        /\ RowOf(k).usdt_amount # WithNonce(10 * Micro, 1000)
        /\ chain # <<>> /\ chain[1].block_timestamp >= RowOf(k).created_at

\* C4 as stated: whatever time passes between the cycle's SELECT, its fetch
\* and its UPDATE, the reconciler never writes '已支付' to an order whose
\* expires_at is not later than the clock.
C4_ExpiredNeverPaid ==
    [][\A c \in Cycles :
          ReconUpdate(c) =>
              \A i \in ByPk(RowAt(c).id) :
                  orders[i].status # "paid" => orders[i].expires_at > now]_vars

\* this step is the answer to the fetch of cycle c: an error, or an empty list
FetchNothing(c) ==
    \/ checkUsdtDeposits_fetch(c, FALSE)
    \/ chain = <<>> /\ checkUsdtDeposits_fetch(c, TRUE)

\* C5: when the fetch of a cycle fails or returns an empty list, the cycle is
\* over with no write: no status and no balance changed, so that the orders
\* it had selected are as they were for the SELECT of the next cycle.
C5_FailedFetchNoEffect ==
    [][\A c \in Cycles :
          FetchNothing(c) =>
              /\ orders' = orders /\ users' = users /\ hist' = hist
              /\ cyc'[c].pc = "idle" /\ cyc'[c].end \in {"failed", "nomatch"}]_vars

\* a cycle's fetch failed although a transfer for its pending order was
\* listed; the order is pending still
C5_FetchFailed ==
    \E c \in Cycles, i \in DOMAIN orders :
        /\ cyc[c] = Over("failed")
        /\ orders[i].status = "pending" /\ orders[i].payment_method = "USDT"
        /\ FindMatch(chain, orders[i]) # 0

\* C6 as stated: every step that makes an order paid finds it pending or
\* awaiting review; confirm_pay on a cancelled order changes nothing, and a
\* cancelled order never leaves that status.
C6_PaidOnlyFromPending ==
    [][\A i \in DOMAIN orders :
          /\ (orders'[i].status = "paid" /\ orders[i].status # "paid")
                => orders[i].status \in {"pending", "review"}
          /\ orders[i].status = "cancelled" => orders'[i].status = "cancelled"]_vars

\* C7 as stated: a cancellation is written only to an order that is pending
\* at the moment of the write; a paid order is never overwritten to cancelled.
C7_CancelOnlyPending ==
    [][\A i \in DOMAIN orders :
          (orders'[i].status = "cancelled" /\ orders[i].status # "cancelled")
              => orders[i].status = "pending"]_vars

\* C8 as stated: the reconciler writes '已支付' only to an order that is
\* eligible still at the moment of the write: not cancelled meanwhile, and
\* with the rail and the amount the cycle selected it with.
C8_WriteOnlyIfEligible ==
    [][\A c \in Cycles :
          ReconUpdate(c) =>
              \A i \in ByPk(RowAt(c).id) :
                  /\ orders[i].status # "cancelled"
                  /\ orders[i].payment_method = "USDT"
                  /\ orders[i].usdt_amount = RowAt(c).usdt_amount]_vars

\* C9 as stated: the buyer's confirm_payment never by itself makes an order
\* paid: an order that is paid was finalized by the operator or by the
\* reconciler.
C9_BuyerNeverFinalizes ==
    \A k \in Keys :
        RowOf(k).status = "paid" => hist[k].by \cap {"admin", "recon"} # {}

\* C10 as stated: after whatever order creations with a deduction,
\* withdrawals, reconciler credits and edits by the operator (add, subtract,
\* set), every balance is at least 0.
C10_BalanceNeverNegative == \A u \in DOMAIN users : users[u].balance >= 0

\* C11 as stated: of two concurrent debits of one account, the read of the
\* balance and the decrement of one never interleave with those of the
\* other: every decrement (of a withdrawal, of an order paid in part from the
\* balance) finds the balance it was checked against still sufficient.
C11_DebitFitsAtWrite ==
    [][\A s \in Slots :
          /\ withdraw_update(s)
                => users[req[s].userId].balance >= req[s].withdrawAmount
          /\ order_deduct(s)
                => users[req[s].userId].balance >= req[s].useBalance]_vars

\* this step changes a balance: the decrement of a withdrawal or of an order
\* paid in part from the balance, or the reconciler's credit
BalanceMutation ==
    \/ \E s \in Slots : withdraw_update(s) \/ order_deduct(s)
    \/ \E c \in Cycles : cyc[c].pc = "credit" /\ checkUsdtDeposits_write(c)

\* C12 as stated: every step that changes a balance appends one entry to the
\* ledger, so that the balance is the sum of the signed entries.
C12_MutationAppendsEntry ==
    [][BalanceMutation => Len(ledger_entries') = Len(ledger_entries) + 1]_vars

\* users with amount given back to account u
Refunded(u, amount) ==
    [v \in DOMAIN users |->
        IF v = u THEN [users[v] EXCEPT !.balance = @ + amount] ELSE users[v]]

\* C13 as stated: the creation of an order is all or nothing: when the INSERT
\* of the order fails after the balance was deducted or the stock was
\* decremented, the deduction and the decrement are undone.
C13_FailedInsertUndone ==
    [][\A s \in Slots :
          /\ (order_insert(s) /\ orders' = orders /\ req[s].useBalance > 0)
                => users' = Refunded(req[s].userId, req[s].useBalance)
          /\ (order2_insert(s) /\ orders' = orders)
                => /\ users' = Refunded(req[s].userId, req[s].deduct)
                   /\ req[s].productId \in DOMAIN products
                         => products'[req[s].productId].stock
                               = products[req[s].productId].stock + 1]_vars

\* C14 as stated: a withdrawal is all or nothing: in every state a withdrawal
\* record exists exactly if its amount was taken from the balance, that is,
\* the step that writes the record takes the amount from the balance too.
C14_RecordWithDeduction ==
    [][\A s \in Slots :
          (withdraw_insert(s) /\ withdraw_orders' # withdraw_orders)
              => users'[req[s].userId].balance
                    = users[req[s].userId].balance - req[s].withdrawAmount]_vars

\* C15 as stated: a request for a withdrawal is accepted only if the account
\* exists and the amount is a well-formed number, at least the minimum and at
\* most the balance; a refused request writes no record and leaves the
\* balance; an accepted one takes exactly the amount from the balance.
C15_AcceptedOnlyIfValid ==
    [][\A s \in Slots, u \in Users \cup {0}, a \in WithdrawInputs, pm \in Rails :
          withdraw_check(s, u, a, pm) =>
              /\ UNCHANGED <<users, withdraw_orders>>
              /\ req'[s].op = "withdraw"
                    => /\ u \in DOMAIN users
                       /\ a # NaN
                       /\ a >= MinWithdraw * Micro
                       /\ a <= users[u].balance]_vars

\* C16 as stated: of the orders created concurrently for a product with one
\* unit in stock only one takes the unit: the stock of no product is ever
\* below 0.
C16_StockNeverNegative == \A p \in DOMAIN products : products[p].stock >= 0

\* a product that cannot be ordered: in no row, or with no unit in stock
Unavailable(p) == p \notin DOMAIN products \/ products[p].stock <= 0

\* C17 as stated: a request for an order with a quantity of 0 or less, for an
\* unknown product or for a product out of stock is refused at once: it goes
\* no further, and orders, stock and balances are as they were.
C17_BadOrderRefused ==
    [][\A s \in Slots, p \in ProductIds \cup UnknownProducts :
          /\ \A q \in Quantities, ub \in UseBalances \cup {0}, n \in OneDraw :
                (order_price(s, 1, p, "USDT", q, ub, n) /\ (q <= 0 \/ Unavailable(p)))
                    => UNCHANGED <<req, orders, products, users>>
          /\ \A ub \in BOOLEAN :
                (order2_read(s, 1, p, "USDT", ub) /\ Unavailable(p))
                    => UNCHANGED <<req, orders, products, users>>]_vars

\* C18 as stated: when the operator confirms the payment of a pending top-up,
\* the top-up is paid and the balance of its owner grows by its amount (once:
\* the confirmation of a top-up that is paid credits nothing).
C18_ConfirmedTopUpCredited ==
    [][\A t \in Tokens, oid \in RechargeIds :
          (authAdmin(t) /\ confirm_pay(t, oid)) =>
              \A i \in DOMAIN recharge_orders :
                  recharge_orders[i].order_id = oid =>
                      LET r == recharge_orders[i]
                      IN IF r.status = "pending"
                         THEN /\ recharge_orders'[i].status = "paid"
                              /\ users'[r.user_id].balance
                                    = users[r.user_id].balance + r.amount
                         ELSE users' = users]_vars

\* a transfer of the amount of the top-up, not older than it, is listed
TopUpMatched(r) ==
    \E k \in DOMAIN chain :
        /\ Abs(chain[k].value - r.amount) < Epsilon
        /\ chain[k].block_timestamp >= r.created_at

\* the order at position k is pending on the USDT rail, not expired, and a
\* matching transfer is listed
OrderAwaits(k) ==
    /\ k \in DOMAIN orders
    /\ Selectable(orders[k])
    /\ FindMatch(chain, orders[k]) # 0

\* the order at position k is paid, or its window is over
OrderSettled(k) ==
    /\ k \in DOMAIN orders
    /\ orders[k].status = "paid" \/ orders[k].expires_at <= now

\* the top-up at position k is pending on the USDT rail, not expired, and a
\* matching transfer is listed
TopUpAwaits(k) ==
    /\ k \in DOMAIN recharge_orders
    /\ recharge_orders[k].status = "pending"
    /\ recharge_orders[k].payment_method = "USDT"
    /\ recharge_orders[k].expires_at > now
    /\ TopUpMatched(recharge_orders[k])

\* the top-up at position k is paid
TopUpPaid(k) ==
    /\ k \in DOMAIN recharge_orders
    /\ recharge_orders[k].status = "paid"

\* C19 as stated: with the reconciler kept running and the explorer answering
\* in the end, every pending, unexpired USDT order and top-up for which a
\* matching transfer is listed is paid in the end (an order, unless its
\* window ends before a cycle selects it).
C19_MatchedEventuallyPaid ==
    /\ \A k \in 1..MaxOrders : OrderAwaits(k) ~> OrderSettled(k)
    /\ \A k \in 1..MaxRecharges : TopUpAwaits(k) ~> TopUpPaid(k)

\* this step is the reconciler's write of cycle c: the UPDATE of the matched
\* order, or the UPDATE of the balance that follows it
ReconWrite(c) == cyc[c].pc \in {"update", "credit"} /\ checkUsdtDeposits_write(c)

\* what the matched transfer of cycle c exceeds the amount owed by: its value
\* less usdt_amount less fee_amount of the row as the cycle read it
Excess(c) == cyc[c].match.value - (RowAt(c).usdt_amount - RowAt(c).fee_amount)

SameAmounts(i) ==
    /\ i \in DOMAIN orders'
    /\ orders'[i].usdt_amount = orders[i].usdt_amount
    /\ orders'[i].cny_amount = orders[i].cny_amount

\* C21: no step but the write of a rail change alters the usdt_amount or the
\* cny_amount of an order: not a cancel, a confirmation by the buyer or the
\* operator, the reconciler, an upload of a QR code, a shipping update, nor a
\* new rate or fee.
C21_AmountsFixed ==
    [][\A i \in DOMAIN orders :
          SameAmounts(i)
             \/ \E s \in Slots : req[s].op = "change_payment" /\ change_payment_update(s)]_vars

\* an order priced at the first rate and fee is paid, its QR code uploaded and
\* its tracking number set, under a new rate and a new fee, its rail never
\* changed: it still owes what it owed at creation
C21_PaidUnderNewRate ==
    \E i \in DOMAIN orders :
        /\ orders[i].status = "paid" /\ orders[i].payment_method = "WX"
        /\ orders[i].qrcode_url = 1 /\ orders[i].tracking_number = 1
        /\ settings.exchange_rate = 72 /\ settings.fee_rate = 5
        /\ budget.changes = 1
        /\ orders[i].usdt_amount = 10 * Micro
        /\ orders[i].cny_amount = 72100000

\* C22 as stated: the write of a rail change touches only orders that are
\* pending at the moment of the write; it never rewrites the rail or the
\* amounts of an order that was paid, cancelled or sent to review since the
\* handler read it.
C22_RailChangeOnlyPending ==
    [][\A s \in Slots :
          (req[s].op = "change_payment" /\ change_payment_update(s))
             => \A i \in ByOrderId(req[s].orderId) : orders[i].status = "pending"]_vars

\* this step is the write of a rail change to the order at position i
RailChangeOf(i) ==
    \E s \in Slots :
        /\ req[s].op = "change_payment" /\ i \in ByOrderId(req[s].orderId)
        /\ change_payment_update(s)

BaseOf(i) == products[1].price * orders[i].quantity

\* base * rate, and base * rate * feePercent / 100, for the order at position i
FiatOf(i) == (BaseOf(i) * settings.exchange_rate) \div 10
FeeOf(i) == (FiatOf(i) * settings.fee_rate) \div 100

\* C24 as stated: an order on a rail other than USDT stores feeAmount =
\* base * rate * feePercent / 100, cnyAmount = base * rate + feeAmount and
\* usdtAmount = base.
C24_FiatPricingExact ==
    \A i \in DOMAIN orders :
        orders[i].payment_method # "USDT"
            => /\ orders[i].fee_amount = FeeOf(i)
               /\ orders[i].cny_amount = FiatOf(i) + orders[i].fee_amount
               /\ orders[i].usdt_amount = BaseOf(i)

\* C24: an order on a rail other than USDT stores usdtAmount = base, and, each
\* rounded to two decimals, feeAmount = base * rate * feePercent / 100 and
\* cnyAmount = base * rate + base * rate * feePercent / 100: a function of
\* price, quantity, rate and fee alone.
C24_FiatPricingRounded ==
    \A i \in DOMAIN orders :
        orders[i].payment_method # "USDT"
            => /\ orders[i].fee_amount = ToFixed2(FeeOf(i))
               /\ orders[i].cny_amount = ToFixed2(FiatOf(i) + FeeOf(i))
               /\ orders[i].usdt_amount = BaseOf(i)

\* the example: price 10, fee 3 %, rate 7.2, not on the USDT rail: 74.16 CNY
\* and 10 USDT are stored
C24_Example ==
    \E i \in DOMAIN orders :
        /\ products[1].price = 10 * Micro /\ orders[i].quantity = 1
        /\ settings.exchange_rate = 72 /\ settings.fee_rate = 3
        /\ orders[i].payment_method = "WX"
        /\ orders[i].cny_amount = 74160000
        /\ orders[i].usdt_amount = 10 * Micro

\* x is a nonce: a number of 1/10000 USDT from 0.1000 to 0.9999
IsNonce(x) == x % 100 = 0 /\ 100000 <= x /\ x <= 999900

\* the orders and the top-ups on the USDT rail carry a nonce: what they ask
\* for less the base (for a top-up, less the amount the buyer asked for)
NonceAdded ==
    /\ \A i \in DOMAIN orders :
          orders[i].payment_method = "USDT" => IsNonce(orders[i].usdt_amount - BaseOf(i))
    /\ \A i \in DOMAIN recharge_orders :
          recharge_orders[i].payment_method = "USDT"
             => \E a \in RechargeAmounts : IsNonce(recharge_orders[i].amount - a)

\* C25 as stated: an order on the USDT rail, no balance deducted, asks for
\* the base plus a nonce of 4 decimals in [0.1000, 0.9999], carries no fee,
\* and its cnyAmount is base * rate, the base without the nonce.
C25_NonceAndFiatExact ==
    /\ NonceAdded
    /\ \A i \in DOMAIN orders :
          orders[i].payment_method = "USDT"
             => orders[i].fee_amount = 0 /\ orders[i].cny_amount = FiatOf(i)

\* C25: an order on the USDT rail, no balance deducted, asks for the base plus
\* a nonce of 4 decimals in [0.1000, 0.9999], carries no fee, and its
\* cnyAmount is base * rate rounded to two decimals, the base without the
\* nonce.
C25_NonceAndFiatRounded ==
    /\ NonceAdded
    /\ \A i \in DOMAIN orders :
          orders[i].payment_method = "USDT"
             => orders[i].fee_amount = 0 /\ orders[i].cny_amount = ToFixed2(FiatOf(i))

\* an order of two items at 10.01 on the USDT rail drew the largest nonce and
\* a top-up on the USDT rail the least
C25_NoncesDrawn ==
    /\ \E i \in DOMAIN orders :
          /\ orders[i].payment_method = "USDT" /\ orders[i].quantity = 2
          /\ products[1].price = 10010000
          /\ orders[i].usdt_amount = 20020000 + 999900
    /\ \E i \in DOMAIN recharge_orders :
          /\ recharge_orders[i].payment_method = "USDT"
          /\ recharge_orders[i].amount = 10 * Micro + 100000

\* C26 as stated: when order creation deducts from the balance, what it
\* deducts is at most the balance of that moment and less than the amount
\* owed, the balance goes down by exactly that, and what remains owed on the
\* order is strictly positive.
C26_DeductionLeavesOwed ==
    [][\A s \in Slots :
          /\ (req[s].op = "order" /\ req[s].pc = "deduct" /\ order_deduct(s))
                => /\ req[s].useBalance <= users[req[s].userId].balance
                   /\ users'[req[s].userId].balance
                         = users[req[s].userId].balance - req[s].useBalance
                   /\ req'[s].usdtAmount > 0
          /\ (req[s].op = "order2" /\ req[s].pc = "deduct" /\ req[s].deduct > 0
                 /\ order2_deduct(s))
                => /\ req[s].deduct <= users[req[s].userId].balance
                   /\ users'[req[s].userId].balance
                         = users[req[s].userId].balance - req[s].deduct
                   /\ req'[s].finalUSDT > 0]_vars

\* C28 as stated: the upload of the buyer's proof changes an order only if
\* the order is pending; on an order that is paid, cancelled or in review
\* already it leaves the status and the stored proof as they were.
C28_UploadOnlyFromPending ==
    [][\A oid \in OrderIds, pr \in {1} :
          upload_proof(oid, pr)
             => \A i \in ByOrderId(oid) :
                   orders[i].status # "pending"
                      => /\ orders'[i].status = orders[i].status
                         /\ orders'[i].proof = orders[i].proof]_vars

\* a step of the order life cycle that is a reject-payment of the order at
\* position i: it clears the proof the buyer uploaded, sets the order pending
\* again and leaves every balance as it was
RejectPayment(i) ==
    /\ Next
    /\ i \in DOMAIN orders'
    /\ orders'[i].status = "pending" /\ orders'[i].proof = 0
    /\ users' = users

\* C27 as stated: the operator's reject-payment on an order in review clears
\* the uploaded proof, sets the order pending again, so that a proof can be
\* uploaded again, and changes no balance: whenever an order is in review,
\* such a step can be taken.
C27_ReviewCanBeRejected ==
    \A i \in DOMAIN orders : orders[i].status = "review" => ENABLED RejectPayment(i)

\* a step of the ledger that rejects the withdrawal at position k: it marks
\* the request rejected and returns the amount asked for to its account
RejectWithdrawal(k) ==
    /\ NextLedger
    /\ withdraw_orders'[k].status = "rejected"
    /\ users'[withdraw_orders[k].user_id].balance
          = Plus(users[withdraw_orders[k].user_id].balance, withdraw_orders[k].amount)

\* a step of the ledger that confirms the withdrawal at position k: it marks
\* the request completed and changes no balance
ConfirmWithdrawal(k) ==
    /\ NextLedger
    /\ withdraw_orders'[k].status = "completed"
    /\ users' = users

\* C29 as stated: a withdrawal request that awaits its decision, no request
\* being in progress, can be rejected, which marks it rejected and returns exactly the amount asked for
\* to the balance, and can be confirmed, which marks it completed and changes
\* no balance.
C29_WithdrawalCanBeDecided ==
    \A k \in DOMAIN withdraw_orders :
        (withdraw_orders[k].status = "waiting" /\ \A s \in Slots : req[s].op = "idle")
            => ENABLED RejectWithdrawal(k) /\ ENABLED ConfirmWithdrawal(k)

\* the referral bonus of the order at position i: five percent of its
\* usdt_amount, to four decimals
ReferralBonus(i) == ToFixed4((orders[i].usdt_amount * 5) \div 100)

\* a step that credits an account other than the buyer of the order at
\* position i with the order's referral bonus and leaves the order paid
ReferralCredit(i) ==
    /\ NextRail
    /\ i \in DOMAIN orders' /\ orders'[i].status = "paid"
    /\ \E v \in Users \ {orders[i].user_id} :
          users'[v].balance = users[v].balance + ReferralBonus(i)

\* C30 as stated: once an order is finalized and its bonus does not round to
\* zero, the referral credit can follow the buyer-side write: a step credits
\* the referring account, another account than the buyer's, with amount * 5%
\* and leaves the order paid.
C30_ReferrerCanBeCredited ==
    \A i \in DOMAIN orders :
        (orders[i].status = "paid" /\ ReferralBonus(i) > 0 /\ cyc[1].pc = "idle")
            => ENABLED ReferralCredit(i)

\* ------------------------------------------------- the bulk operations

\* where a message to the bot comes from: the operators' group, a private
\* chat, another group
Chats == {"group", "private", "other"}

\* bot.on('message'): a private chat is ignored and another group is left
FromGroup(chat) == chat = "group"

\* bot.on('message'), /sc: DELETE FROM orders
bot_message_sc(chat) ==
    /\ IF FromGroup(chat)
       THEN /\ orders' = <<>>
            /\ resp' = Respond("sc", TRUE)
       ELSE UNCHANGED <<orders, resp>>
    /\ UNCHANGED <<now, orderSerial, users, products, settings, withdraw_orders,
                   recharge_orders, ADMIN_TOKEN_STORE, chain, cyc, req, hist, budget>>

\* bot.on('message'), /qc: TRUNCATE products, orders, messages, users RESTART
\* IDENTITY; the serial of orders starts again, and with it the history
bot_message_qc(chat) ==
    /\ IF FromGroup(chat)
       THEN /\ orders' = <<>> /\ users' = <<>> /\ products' = <<>>
            /\ orderSerial' = 0 /\ hist' = <<>>
            /\ resp' = Respond("qc", TRUE)
       ELSE UNCHANGED <<orders, users, products, orderSerial, hist, resp>>
    /\ UNCHANGED <<now, settings, withdraw_orders, recharge_orders, ADMIN_TOKEN_STORE,
                   chain, cyc, req, budget>>

\* the second program's bot.on('message'), /qc: TRUNCATE users, orders, chats
bot2_message_qc(chat) ==
    /\ IF FromGroup(chat)
       THEN /\ orders' = <<>> /\ users' = <<>>
            /\ resp' = Respond("qc2", TRUE)
       ELSE UNCHANGED <<orders, users, resp>>
    /\ UNCHANGED <<now, orderSerial, products, settings, withdraw_orders, recharge_orders,
                   ADMIN_TOKEN_STORE, chain, cyc, req, hist, budget>>

\* what a run of the bulk operations may do: the buyers place orders
Bulk == [orders |-> MaxOrders, changes |-> 0, logins |-> 0, edits |-> 0,
         withdrawals |-> 0, recharges |-> 0]

InitBulk == Fresh /\ resp = NoResp /\ budget = Bulk

NextBulk ==
    \/ \E t \in Instants : Tick(t)
    \/ \E s \in Slots, u \in Users, pm \in Rails, n \in OneDraw :
          order_price(s, u, 1, pm, 1, 0, n)
    \/ \E s \in Slots : order_insert(s)
    \/ \E chat \in Chats : bot_message_sc(chat)
    \/ \E chat \in Chats : bot_message_qc(chat)
    \/ \E chat \in Chats : bot2_message_qc(chat)

\* the buyers' orders and the operator's bulk commands
SpecBulk == InitBulk /\ [][NextBulk]_vars

\* a step that empties a table that held rows
Wipes ==
    \/ orders # <<>> /\ orders' = <<>>
    \/ users # <<>> /\ users' = <<>>
    \/ products # <<>> /\ products' = <<>>

\* C31: a table is emptied only by the second step of a confirmation: the
\* step that empties it follows a bulk command the bot has answered, never
\* an unrelated request, so one command on its own deletes nothing.
C31_WipeNeedsTwoSteps ==
    [][Wipes => resp.op \in {"sc", "qc", "qc2"}]_vars

\* ------------------------------------------------ the operator's routes

\* the tokens a request may carry: none (0), the token of the first login,
\* of the second, ...
Sessions == 0..(MaxLogins + 1)

\* the values a settings route may be sent
SettingValues == {1}

\* the id the next INSERT INTO products takes from the SERIAL: the catalogue
\* of the start, and one per product created since
NewProductId == Cardinality(ProductIds) + 1 + (MaxEdits - budget.edits)

\* POST /api/admin/product: INSERT INTO products
admin_product_create(token, price, stock) ==
    /\ budget.edits > 0
    /\ IF authAdmin(token)
       THEN /\ products' = [i \in DOMAIN products \cup {NewProductId} |->
                  IF i = NewProductId
                  THEN [price |-> price, stock |-> stock, is_pinned |-> FALSE, type |-> "virtual"]
                  ELSE products[i]]
            /\ budget' = [budget EXCEPT !.edits = @ - 1]
            /\ resp' = Respond("product_create", TRUE)
       ELSE /\ resp' = Respond("product_create", FALSE)
            /\ UNCHANGED <<products, budget>>
    /\ UNCHANGED <<now, orders, orderSerial, users, settings, withdraw_orders,
                   recharge_orders, ADMIN_TOKEN_STORE, chain, cyc, req, hist>>

\* PUT /api/admin/product/:id: UPDATE products SET ... WHERE id = $8
admin_product_edit(token, id, price, stock) ==
    /\ IF authAdmin(token)
       THEN /\ products' = [i \in DOMAIN products |->
                  IF i = id THEN [products[i] EXCEPT !.price = price, !.stock = stock]
                  ELSE products[i]]
            /\ resp' = Respond("product_edit", TRUE)
       ELSE /\ resp' = Respond("product_edit", FALSE)
            /\ UNCHANGED products
    /\ UNCHANGED <<now, orders, orderSerial, users, settings, withdraw_orders,
                   recharge_orders, ADMIN_TOKEN_STORE, chain, cyc, req, hist, budget>>

\* DELETE /api/admin/product/:id: DELETE FROM products WHERE id = $1
admin_product_delete(token, id) ==
    /\ IF authAdmin(token)
       THEN /\ products' = [i \in DOMAIN products \ {id} |-> products[i]]
            /\ resp' = Respond("product_delete", TRUE)
       ELSE /\ resp' = Respond("product_delete", FALSE)
            /\ UNCHANGED products
    /\ UNCHANGED <<now, orders, orderSerial, users, settings, withdraw_orders,
                   recharge_orders, ADMIN_TOKEN_STORE, chain, cyc, req, hist, budget>>

\* POST /api/admin/product/pin/:id: is_pinned is read and its negation
\* written; reading it of no row throws, and the route answers 500
admin_product_pin(token, id) ==
    /\ IF authAdmin(token) /\ id \in DOMAIN products
       THEN /\ products' = [products EXCEPT ![id].is_pinned = ~@]
            /\ resp' = Respond("product_pin", TRUE)
       ELSE /\ resp' = Respond("product_pin", FALSE)
            /\ UNCHANGED products
    /\ UNCHANGED <<now, orders, orderSerial, users, settings, withdraw_orders,
                   recharge_orders, ADMIN_TOKEN_STORE, chain, cyc, req, hist, budget>>

\* settings after INSERT INTO settings (key, value) ... ON CONFLICT (key) DO
\* UPDATE SET value = $1
Upsert(key, value) ==
    [k \in DOMAIN settings \cup {key} |-> IF k = key THEN value ELSE settings[k]]

\* POST /api/admin/update/hiring and /popup: the key is inserted or updated
admin_update(token, key, value) ==
    /\ key \in {"hiring", "announcement_popup"}
    /\ IF authAdmin(token)
       THEN /\ settings' = Upsert(key, value)
            /\ resp' = Respond("update", TRUE)
       ELSE /\ resp' = Respond("update", FALSE)
            /\ UNCHANGED settings
    /\ UNCHANGED <<now, orders, orderSerial, users, products, withdraw_orders,
                   recharge_orders, ADMIN_TOKEN_STORE, chain, cyc, req, hist, budget>>

\* POST /api/admin/update/announcement: UPDATE settings SET value = $1 WHERE
\* key = 'announcement', of the row if there is one
admin_update_announcement(token, text) ==
    /\ IF authAdmin(token)
       THEN /\ settings' = IF "announcement" \in DOMAIN settings
                           THEN Upsert("announcement", text) ELSE settings
            /\ resp' = Respond("announcement", TRUE)
       ELSE /\ resp' = Respond("announcement", FALSE)
            /\ UNCHANGED settings
    /\ UNCHANGED <<now, orders, orderSerial, users, products, withdraw_orders,
                   recharge_orders, ADMIN_TOKEN_STORE, chain, cyc, req, hist, budget>>

\* what a run of the operator's routes may do: the buyer places one order,
\* the operator logs in, again and once more, and creates products
AdminRun == [orders |-> 1, changes |-> 0, logins |-> MaxLogins + 1, edits |-> MaxEdits,
             withdrawals |-> 0, recharges |-> 0]

\* the store after start: ADMIN_TOKEN_STORE is null, nobody has logged in
InitAdmin ==
    /\ now = 0
    /\ orders = <<>>
    /\ orderSerial = 0
    /\ users = [u \in Users |-> [balance |-> 0]]
    /\ products = [p \in ProductIds |-> [price |-> 10 * Micro, stock |-> 1,
                                          is_pinned |-> FALSE, type |-> "virtual"]]
    /\ settings = [exchange_rate |-> 70, fee_rate |-> 3]
    /\ withdraw_orders = <<>>
    /\ recharge_orders = <<>>
    /\ ADMIN_TOKEN_STORE = 0
    /\ chain = <<>>
    /\ cyc = [c \in Cycles |-> Over("none")]
    /\ req = [s \in Slots |-> Idle]
    /\ hist = <<>>
    /\ resp = NoResp
    /\ budget = AdminRun

NextAdmin ==
    \/ \E good \in BOOLEAN : admin_login(good)
    \/ \E s \in {1} : order_price(s, 1, 1, "WX", 1, 0, 1000)
    \/ \E s \in {1} : order_insert(s)
    \/ \E t \in Sessions, oid \in OrderIds : confirm_pay(t, oid)
    \/ \E t \in Sessions, oid \in OrderIds : order_ship(t, oid, 1)
    \/ \E t \in Sessions, oid \in OrderIds : upload_qrcode(t, oid, "order", 1)
    \/ \E t \in Sessions : admin_product_create(t, 10010000, 1)
    \/ \E t \in Sessions, id \in ProductIds : admin_product_edit(t, id, 10010000, 1)
    \/ \E t \in Sessions, id \in ProductIds : admin_product_delete(t, id)
    \/ \E t \in Sessions, id \in ProductIds : admin_product_pin(t, id)
    \/ \E t \in Sessions, v \in SettingValues : admin_update(t, "hiring", v)
    \/ \E t \in Sessions, v \in SettingValues : admin_update_announcement(t, v)
    \/ \E r \in {72} : bot_message_rate(r)

\* the operator's routes and bot commands around one order, from the start
\* of the program
SpecAdmin == InitAdmin /\ [][NextAdmin]_vars

\* how many logins have succeeded since the program started
LoginsDone == AdminRun.logins - budget.logins

\* t is the token the most recent successful login issued
Issued(t) == LoginsDone > 0 /\ t = LoginsDone

\* a request to one of the operator's routes that carries the token t
OperatorRequest(t) ==
    \/ \E oid \in OrderIds : confirm_pay(t, oid)
    \/ \E oid \in OrderIds : order_ship(t, oid, 1)
    \/ \E oid \in OrderIds : upload_qrcode(t, oid, "order", 1)
    \/ admin_product_create(t, 10010000, 1)
    \/ \E id \in ProductIds : admin_product_edit(t, id, 10010000, 1)
    \/ \E id \in ProductIds : admin_product_delete(t, id)
    \/ \E id \in ProductIds : admin_product_pin(t, id)
    \/ \E v \in SettingValues : admin_update(t, "hiring", v)
    \/ \E v \in SettingValues : admin_update_announcement(t, v)

\* the tables are what they were
Untouched ==
    UNCHANGED <<orders, products, settings, users, withdraw_orders, recharge_orders>>

ProductTypes == {"virtual", "physical"}

\* req.body.shippingInfo: absent (0), present
ShippingInfos == {0, 1}

\* a fresh store whose product is of either type
InitNotify ==
    /\ now = 0
    /\ orders = <<>>
    /\ orderSerial = 0
    /\ users = [u \in Users |-> [balance |-> 0]]
    /\ \E ty \in ProductTypes :
          products = [p \in ProductIds |->
                         [price |-> 10 * Micro, stock |-> 1, is_pinned |-> FALSE, type |-> ty]]
    /\ settings = [exchange_rate |-> 70, fee_rate |-> 3]
    /\ withdraw_orders = <<>>
    /\ recharge_orders = <<>>
    /\ ADMIN_TOKEN_STORE = 1
    /\ chain = <<>>
    /\ cyc = [c \in Cycles |-> Over("none")]
    /\ req = [s \in Slots |-> Idle]
    /\ hist = <<>>
    /\ resp = NoResp
    /\ budget = Creation

NextNotify ==
    \/ \E t \in Instants : Tick(t)
    \/ \E s \in Slots, u \in Users, pm \in Rails, sh \in ShippingInfos, n \in OneDraw :
          order_create(s, u, 1, pm, sh, 1, 0, n)
    \/ \E s \in Slots : order_insert(s)

\* the buyers' orders of a virtual or a physical product, with and without
\* shipping details
SpecNotify == InitNotify /\ [][NextNotify]_vars

\* C33: once order creation has inserted the row, the caller receives
\* success, whatever happens to the operator notification.
C33_PersistedOrderSucceeds ==
    [][\A s \in Slots :
          (order_insert(s) /\ Len(orders') > Len(orders))
              => resp' = [op |-> "order", ok |-> TRUE]]_vars

\* a step that is the write of a confirmation by the operator or by the buyer
ConfirmWrite ==
    \/ \E t \in Tokens, oid \in OrderIds : confirm_pay(t, oid)
    \/ \E s \in Slots : confirm_payment_update(s)

\* C34: the operator's confirm_pay and the buyer's confirm_payment leave alone
\* the status of an order whose expires_at is not later than the clock.
C34_ConfirmationsCheckExpiry ==
    [][ConfirmWrite =>
          \A i \in DOMAIN orders :
              orders[i].expires_at <= now => orders'[i].status = orders[i].status]_vars

\* C35: order ids are unique and never collide: every INSERT of an order
\* creation adds its row, whenever the creation read the clock, and no two
\* rows of orders carry the same order_id.
C35_OrderIdsNeverCollide ==
    [][\A s \in Slots :
          order_insert(s) =>
              /\ Len(orders') = Len(orders) + 1
              /\ \A i, j \in DOMAIN orders' :
                    i # j => orders'[i].order_id # orders'[j].order_id]_vars

\* ------------------------------------------ two orders, one transfer

\* what a run may do with orders that ask for the same amount: the buyers
\* place orders
Ties == [orders |-> MaxOrders, changes |-> 0, logins |-> 0, edits |-> 0,
         withdrawals |-> 0, recharges |-> 0]

InitTies == Fresh /\ resp = RespOff /\ budget = Ties

NextTies ==
    \/ \E t \in Instants : Tick(t)
    \/ \E v \in TransferValues : Transfer(v)
    \/ \E c \in {1} : checkUsdtDeposits_select(c)
    \/ \E c \in {1}, ok \in BOOLEAN : checkUsdtDeposits_fetch(c, ok)
    \/ \E c \in {1} : checkUsdtDeposits_write(c)
    \/ \E s \in {1}, u \in Users, n \in NonceDraws : order_price(s, u, 1, "USDT", 1, 0, n)
    \/ \E s \in {1} : order_insert(s)

\* the buyers' orders on the USDT rail, whose nonces may be drawn alike, the
\* transfers, and the reconciler one cycle at a time
SpecTies == InitTies /\ [][NextTies]_vars

\* C36: one transfer pays at most one order: the orders the reconciler has
\* set '已支付' are no more than the transfers the explorer lists, within a
\* cycle and over successive cycles.
C36_OneTransferOneOrder ==
    Cardinality({k \in DOMAIN hist : "recon" \in hist[k].by}) <= Len(chain)

\* C37: after any creations and rail changes a pending order on the USDT rail
\* has fee_amount = 0, and no write of a reconciler cycle changes a balance.
C37_ReconcilerNeverCredits ==
    [][/\ \A i \in DOMAIN orders' :
             (orders'[i].payment_method = "USDT" /\ orders'[i].status = "pending")
                 => orders'[i].fee_amount = 0
       /\ \A c \in Cycles : checkUsdtDeposits_write(c) => users' = users]_vars

\* an order placed on a fiat rail with its fee was moved to the USDT rail,
\* where it asks for 8 USDT and carries no fee; the reconciler matched a
\* transfer to it and set it '已支付', and no balance has moved
C37_PaidAfterMoveToUsdt ==
    \E k \in Keys :
        /\ RowOf(k).payment_method = "USDT" /\ RowOf(k).fee_amount = 0
        /\ RowOf(k).usdt_amount = 8 * Micro
        /\ RowOf(k).status = "paid" /\ "recon" \in hist[k].by
        /\ \A u \in Users : users[u].balance = 0

\* C38: a rail change keeps the base price of the order: after any rail
\* changes an order on the USDT rail asks for the base plus one nonce in
\* [0.1000, 0.9999], and an order on another rail has usdt_amount = base and
\* cny_amount = base * rate * (1 + feePercent / 100), to two decimals; the
\* nonces and the fees of earlier rails do not add up.
C38_RailChangeKeepsBase ==
    \A i \in DOMAIN orders :
        IF orders[i].payment_method = "USDT"
        THEN IsNonce(orders[i].usdt_amount - BaseOf(i))
        ELSE /\ orders[i].usdt_amount = BaseOf(i)
             /\ orders[i].cny_amount = ToFixed2(FiatOf(i) + FeeOf(i))

\* ------------------------------------------------------- the cancel

\* what a run of the cancel may do: the operator edits a balance once, the
\* buyer places one order
Cancelling == [orders |-> 1, changes |-> 0, logins |-> 0, edits |-> MaxEdits,
               withdrawals |-> 0, recharges |-> 0]

InitCancel == Fresh /\ resp = RespOff /\ budget = Cancelling

NextCancel ==
    \/ \E h \in Headers, a \in EditAmounts, ty \in EditTypes : admin_user_balance(h, 1, a, ty)
    \/ \E s \in Slots, pm \in Rails, ub \in UseBalances \cup {0}, n \in OneDraw :
          order_price(s, 1, 1, pm, 1, ub, n)
    \/ \E s \in Slots : order_balance(s)
    \/ \E s \in Slots : order_deduct(s)
    \/ \E s \in Slots : order_insert(s)
    \/ \E t \in Tokens, oid \in OrderIds : confirm_pay(t, oid)
    \/ \E s \in Slots, oid \in OrderIds : cancel_check(s, oid, 1)
    \/ \E s \in Slots : cancel_update(s)

\* one order, paid in part from the balance or not, and its cancel
SpecCancel == InitCancel /\ [][NextCancel]_vars

\* C39: the write of a cancel changes the status of the order and nothing
\* else: the balances, what was deducted from the buyer's included, the
\* amounts and the other columns of the order, and the stock are what they
\* were.
C39_CancelChangesStatusOnly ==
    [][\A s \in Slots :
          cancel_update(s) =>
              /\ users' = users /\ products' = products
              /\ DOMAIN orders' = DOMAIN orders
              /\ \A i \in DOMAIN orders :
                    [orders'[i] EXCEPT !.status = orders[i].status] = orders[i]]_vars

\* the buyer had 20 USDT, paid 5 of an order from the balance and cancelled
\* the order: the order is cancelled, asks for 5.1 USDT still, and the balance
\* is 15 USDT
C39_CancelledAfterDeduction ==
    \E i \in DOMAIN orders :
        /\ orders[i].status = "cancelled"
        /\ orders[i].usdt_amount = 5100000
        /\ users[1].balance = 15 * Micro

\* ---------------------------------------------- whose order it is

\* an instant at which the last six digits of the clock are those of the
\* start again
Recurrence == {IdDigits}

\* what a run of the buyers may do: place orders and change a rail
Owners == [orders |-> MaxOrders, changes |-> 1, logins |-> 0, edits |-> 0,
           withdrawals |-> 0, recharges |-> 0]

InitOwn == Fresh /\ resp = NoResp /\ budget = Owners

NextOwn ==
    \/ \E t \in Recurrence : Tick(t)
    \/ bot_message_sc("group")
    \/ \E s \in Slots, u \in Users, n \in OneDraw : order_price(s, u, 1, "WX", 1, 0, n)
    \/ \E s \in Slots : order_insert(s)
    \/ \E s \in Slots, oid \in OrderIds, u \in Users : cancel_check(s, oid, u)
    \/ \E s \in Slots : cancel_update(s)
    \/ \E s \in Slots, oid \in OrderIds, u \in Users, n \in OneDraw :
          change_payment_price(s, oid, u, "USDT", n)
    \/ \E s \in Slots : change_payment_update(s)
    \/ \E s \in Slots, oid \in OrderIds, u \in Users : confirm_payment_check(s, oid, u)
    \/ \E s \in Slots : confirm_payment_update(s)

\* the orders of two buyers, the requests of either about any order, and the
\* operator's /sc
SpecOwn == InitOwn /\ [][NextOwn]_vars

\* a step that is the write of a buyer's request in slot s
BuyerWrite(s) ==
    cancel_update(s) \/ change_payment_update(s) \/ confirm_payment_update(s)

\* a step that is the first step of a buyer's request in slot s, sent with
\* the account u about the order oid
BuyerCheck(s, oid, u) ==
    \/ cancel_check(s, oid, u)
    \/ confirm_payment_check(s, oid, u)
    \/ \E n \in OneDraw : change_payment_price(s, oid, u, "USDT", n)

\* C40: a cancel, a rail change or a confirmation sent with the id of one
\* account never changes an order of another account: about another's order
\* the request is refused as the order is not found, and the write of a
\* request leaves every order of another account as it was.
C40_OwnOrdersOnly ==
    [][\A s \in Slots :
          /\ \A oid \in OrderIds, u \in Users :
                (BuyerCheck(s, oid, u) /\ Len(Owned(oid, u)) = 0)
                    => req'[s] = Idle /\ ~resp'.ok
          /\ BuyerWrite(s) =>
                \A i \in DOMAIN orders :
                    orders[i].user_id # req[s].userId => orders'[i] = orders[i]]_vars

====
